---- MODULE Spec2Model ----
(***************************************************************************)
(* Model of the report reconciliation services of backend_cs:              *)
(*   app/services/comparison.py      ComparisonService                     *)
(*   app/services/transformation.py  TransformationService                 *)
(*   app/services/pdf_parser.py      PDFParserService                      *)
(*                                                                         *)
(* Representation of Python / pandas values:                               *)
(*   - a text is a sequence of one-character strings ("1014" is            *)
(*     <<"1","0","1","4">>); a missing text cell (None / NaN) is NaS;      *)
(*   - a numeric cell is NaN (the empty tuple) or Num(n) = <<n>>;          *)
(*   - a store-code cell is a str cell with its digits, or None;           *)
(*   - a DataFrame is [cols, rows]: the ordered column labels and the      *)
(*     ordered rows; a row has one field per column the services know,     *)
(*     and only the fields named in cols are part of the frame.            *)
(***************************************************************************)
EXTENDS Integers, Sequences, FiniteSets, TLC

\* given_df is the frame a stage was called with, as its caller holds it
VARIABLES pc, weekly_df, inventory_df, mazza_report, result_df, df_output,
          store_code, store_name, given_df, mazza_i, existing_codes,
          lines, line_no, quantities, descriptions,
          nf_pdfs, pedido_pdfs, all_quantities, all_descriptions,
          raw_description, units_returned, desc_returned

\* the locals of parse_nf_pdf / parse_pedido_pdf (line_no is the index i)
parser_vars == <<lines, line_no, quantities, descriptions>>

\* the arguments and locals of _process_pdfs
pdfs_vars == <<nf_pdfs, pedido_pdfs, all_quantities, all_descriptions>>

\* the argument of a call of extract_units_from_description or
\* normalize_description and what the call returned
text_vars == <<raw_description, units_returned, desc_returned>>

vars == <<pc, weekly_df, inventory_df, mazza_report, result_df, df_output,
          store_code, store_name, given_df, mazza_i, existing_codes,
          parser_vars, pdfs_vars, text_vars>>

\* an empty dict
EmptyDict == <<>>

\* no parser call is in progress
NoParse ==
    /\ lines = <<>>
    /\ line_no = 0
    /\ quantities = EmptyDict
    /\ descriptions = EmptyDict

\* an absent description, None
NoDescription == <<"None">>

\* no call of the two text functions is in progress
NoText ==
    /\ raw_description = NoDescription
    /\ units_returned = 1
    /\ desc_returned = <<>>

\* no _process_pdfs call is in progress
NoPdfs ==
    /\ nf_pdfs = <<>>
    /\ pedido_pdfs = <<>>
    /\ all_quantities = EmptyDict
    /\ all_descriptions = EmptyDict

----------------------------------------------------------------------------
(* Numeric cells *)

NaN == <<>>

Num(n) == <<n>>

IsNa(x) == x = NaN

\* `x if pd.notna(x) else 0`
Nz(x) == IF IsNa(x) THEN 0 ELSE x[1]

\* Python `a != b` on numeric cells: NaN differs from everything
PyNe(a, b) == IsNa(a) \/ IsNa(b) \/ a # b

\* a cell that holds a text which is no number, as read from a sheet; a
\* text cell has more than one element, a number exactly one
Unparseable == <<"n", "/", "d">>

IsText(x) == Len(x) > 1

\* Python `a + b` on numeric cells
PyAdd(a, b) == IF IsNa(a) \/ IsNa(b) THEN NaN ELSE Num(a[1] + b[1])

----------------------------------------------------------------------------
(* Texts *)

\* a missing text cell; the reserved symbol is no character of any text
NaS == <<"<NA>">>

IsNaS(s) == s = NaS

\* f"{x}" of a text cell: a float NaN prints as "nan"
FStr(s) == IF IsNaS(s) THEN <<"n", "a", "n">> ELSE s

\* bool(x) of a text cell: only the empty string is falsy
Truthy(s) == s # <<>>

RECURSIVE LStrip(_, _)
LStrip(s, chars) ==
    IF s # <<>> /\ s[1] \in chars THEN LStrip(Tail(s), chars) ELSE s

RECURSIVE RStrip(_, _)
RStrip(s, chars) ==
    IF s # <<>> /\ s[Len(s)] \in chars
    THEN RStrip(SubSeq(s, 1, Len(s) - 1), chars)
    ELSE s

\* str.strip(chars)
Strip(s, chars) == RStrip(LStrip(s, chars), chars)

\* `pat in s` for texts
Contains(s, pat) ==
    \E k \in 0..(Len(s) - Len(pat)) : SubSeq(s, k + 1, k + Len(pat)) = pat

\* the formatted pair without the strip
GroupLabel_NoStrip(cod, desc) == FStr(cod) \o <<" ", "-", " ">> \o FStr(desc)

\* f"{cod} - {desc}".strip(" -")
GroupLabel(cod, desc) ==
    Strip(FStr(cod) \o <<" ", "-", " ">> \o FStr(desc), {" ", "-"})

----------------------------------------------------------------------------
(* Store-code cells *)

StrCell(digits) == [t |-> "str", v |-> digits]

NoneCell == [t |-> "none", v |-> ""]

\* str(x) of a store-code cell
PyStr(c) == IF c.t = "none" THEN StrCell("None") ELSE StrCell(c.v)

\* the store for which the ranking report is merged (the literal "1225")
DesignatedStore == StrCell("1225")

----------------------------------------------------------------------------
(* DataFrames *)

WeeklyCols ==
    <<"Codigo", "Descricao", "Grupo", "Estoque", "Pedido", "Total",
      "Saidas", "Sugestao">>

Frame(cols, rows) == [cols |-> cols, rows |-> rows]

NoFrame == Frame(<<>>, <<>>)

\* a row of the transformed weekly report; the columns the frame does not
\* have yet are held at their missing value
WeeklyRow(code, desc, grupo, estoque, pedido, total, saidas) ==
    [CodLoja |-> NoneCell, Codigo |-> code, Descricao |-> desc,
     Grupo |-> grupo, Estoque |-> estoque, Pedido |-> pedido,
     Total |-> total, Saidas |-> saidas, SaidasVD |-> NaN,
     SaidasTotal |-> NaN, Sugestao |-> NaN]

\* the Loja column next to Cód. Loja: the name under which a store is listed
StoreNameOf(loja) ==
    IF loja = StrCell("1225") THEN StrCell("Matriz") ELSE StrCell("Filial")

InventoryRow(loja, code, desc, cod_grupo, desc_grupo, qty) ==
    [CodLoja |-> loja, Loja |-> StoreNameOf(loja),
     CodProduto |-> code, DescProduto |-> desc,
     CodGrupo |-> cod_grupo, DescGrupo |-> desc_grupo, Quantidade |-> qty]

SeqRange(s) == {s[i] : i \in 1..Len(s)}

\* list.remove(x) followed by list.insert(at, x) helpers
RemoveCol(cols, c) == SelectSeq(cols, LAMBDA x : x # c)

HasCol(cols, c) == c \in SeqRange(cols)

\* df[c] = value: a new label goes last, an existing one keeps its place
WithCol(cols, c) == IF HasCol(cols, c) THEN cols ELSE Append(cols, c)

----------------------------------------------------------------------------
(* ComparisonService._compare_and_merge *)

\* dict(zip(keys, values)): the last row of a code wins
InventoryCodes(inv) == {inv[i].CodProduto : i \in 1..Len(inv)}

\* a dict that keeps the first value of a repeated key
LastIndexOf_FirstWins(inv, code) ==
    CHOOSE i \in 1..Len(inv) :
        /\ inv[i].CodProduto = code
        /\ \A j \in 1..(i - 1) : inv[j].CodProduto # code

LastIndexOf(inv, code) ==
    CHOOSE i \in 1..Len(inv) :
        /\ inv[i].CodProduto = code
        /\ \A j \in (i + 1)..Len(inv) : inv[j].CodProduto # code

inventory_lookup(inv, code) == inv[LastIndexOf(inv, code)].Quantidade

inventory_cod_grupo(inv, code) == inv[LastIndexOf(inv, code)].CodGrupo

inventory_desc_grupo(inv, code) == inv[LastIndexOf(inv, code)].DescGrupo

inventory_desc_produto(inv, code) == inv[LastIndexOf(inv, code)].DescProduto

\* UpdateEstoque with the Total left at the inventory quantity alone
UpdateEstoque_NoPedido(row, inv_qty) ==
    IF PyNe(row.Estoque, inv_qty)
    THEN [row EXCEPT !.Estoque = inv_qty, !.Total = inv_qty]
    ELSE row

\* lines 91-94: overwrite Estoque with the inventory quantity when different
UpdateEstoque(row, inv_qty) ==
    IF PyNe(row.Estoque, inv_qty)
    THEN [row EXCEPT !.Estoque = inv_qty,
                     !.Total = PyAdd(inv_qty, Num(Nz(row.Pedido)))]
    ELSE row

\* EnrichGrupo without the test for an empty Grupo
EnrichGrupo_Always(row, orig, inv) ==
    LET cod_grupo == inventory_cod_grupo(inv, orig.Codigo)
        desc_grupo == inventory_desc_grupo(inv, orig.Codigo)
        r1 == IF Truthy(cod_grupo) \/ Truthy(desc_grupo)
              THEN [row EXCEPT !.Grupo = GroupLabel(cod_grupo, desc_grupo)]
              ELSE row
    IN  [r1 EXCEPT !.Descricao = inventory_desc_produto(inv, orig.Codigo)]

\* lines 96-103: enrich a row whose Grupo is empty from the inventory;
\* `orig` is the row as iterrows() delivered it
EnrichGrupo(row, orig, inv) ==
    IF IsNaS(orig.Grupo) \/ orig.Grupo = <<>>
    THEN LET cod_grupo == inventory_cod_grupo(inv, orig.Codigo)
             desc_grupo == inventory_desc_grupo(inv, orig.Codigo)
             r1 == IF Truthy(cod_grupo) \/ Truthy(desc_grupo)
                   THEN [row EXCEPT !.Grupo = GroupLabel(cod_grupo, desc_grupo)]
                   ELSE row
         IN  [r1 EXCEPT !.Descricao = inventory_desc_produto(inv, orig.Codigo)]
    ELSE row

\* lines 105-109: a product the inventory does not list has no stock
ZeroEstoque(row) ==
    IF PyNe(row.Estoque, Num(0))
    THEN [row EXCEPT !.Estoque = Num(0), !.Total = Num(Nz(row.Pedido))]
    ELSE row

\* lines 85-112: one iteration of the update loop, then the store column
UpdateRow(row, inv, store) ==
    LET r == IF row.Codigo \in InventoryCodes(inv)
             THEN EnrichGrupo(
                      UpdateEstoque(row, inventory_lookup(inv, row.Codigo)),
                      row, inv)
             ELSE ZeroEstoque(row)
    IN  [r EXCEPT !.CodLoja = store]

\* lines 123-137: the row created for an inventory product new to the report
NewProductRow(inv_row) ==
    [CodLoja |-> inv_row.CodLoja, Codigo |-> inv_row.CodProduto,
     Descricao |-> inv_row.DescProduto,
     Grupo |-> GroupLabel(inv_row.CodGrupo, inv_row.DescGrupo),
     Estoque |-> inv_row.Quantidade, Pedido |-> NaN,
     Total |-> inv_row.Quantidade, Saidas |-> Num(0),
     SaidasVD |-> NaN, SaidasTotal |-> NaN, Sugestao |-> NaN]

FrameCodes(rows) == {rows[i].Codigo : i \in 1..Len(rows)}

\* NewRows without the set difference against the weekly codes
NewRows_AllInventory(weekly_rows, inv) == inv

\* lines 114-122: the inventory rows whose code the weekly report lacks
NewRows(weekly_rows, inv) ==
    SelectSeq(inv, LAMBDA r : r.CodProduto \notin FrameCodes(weekly_rows))

CompareAndMerge(weekly, inv) ==
    LET store == IF Len(inv) > 0 THEN inv[1].CodLoja ELSE NoneCell
        updated == [i \in 1..Len(weekly.rows) |->
                       UpdateRow(weekly.rows[i], inv, store)]
        new_rows == NewRows(weekly.rows, inv)
        added == [k \in 1..Len(new_rows) |-> NewProductRow(new_rows[k])]
    IN  Frame(WithCol(weekly.cols, "CodLoja"), updated \o added)

----------------------------------------------------------------------------
(* ComparisonService._apply_sorting *)

\* the characters of the modelled texts in code-point order
CodePoints ==
    <<" ", ",", "-", ".", "0", "1", "2", "3", "4", "5", "6", "7", "8", "9",
      "A", "B", "C", "D", "E", "F", "G", "K", "N", "O", "P", "U", "X",
      "a", "c", "d", "i", "n", "o", "r", "s", "t", "u">>

Ord(ch) == CHOOSE i \in 1..Len(CodePoints) : CodePoints[i] = ch

\* Python `a < b` on str
RECURSIVE TextLess(_, _)
TextLess(a, b) ==
    IF b = <<>> THEN FALSE
    ELSE IF a = <<>> THEN TRUE
    ELSE IF a[1] = b[1] THEN TextLess(Tail(a), Tail(b))
    ELSE Ord(a[1]) < Ord(b[1])

\* grupo_priority with the tier of a group decided by "1014" alone
grupo_priority_CodeOnly(grupo) ==
    IF IsNaS(grupo) \/ grupo = <<>> THEN 1
    ELSE IF Contains(grupo, <<"1", "0", "1", "4">>) THEN 0
    ELSE IF Contains(grupo, <<"1", "0", "1", "3">>) THEN 2
    ELSE 1

\* lines 151-159
grupo_priority(grupo) ==
    IF IsNaS(grupo) \/ grupo = <<>> THEN 1
    ELSE IF /\ Contains(grupo, <<"1", "0", "1", "4">>)
            /\ Contains(grupo, <<"F", "u", "n", "c", "i", "o", "n", "a", "i", "s">>)
         THEN 0
    ELSE IF /\ Contains(grupo, <<"1", "0", "1", "3">>)
            /\ Contains(grupo, <<"P", "a", "s", "c", "o", "a">>)
         THEN 2
    ELSE 1

\* the order sort_values(["_priority", "Descricao"]) puts two rows in:
\* ascending priority, then ascending description with missing ones last
SortsBefore(a, b) ==
    \/ grupo_priority(a.Grupo) < grupo_priority(b.Grupo)
    \/ /\ grupo_priority(a.Grupo) = grupo_priority(b.Grupo)
       /\ \/ ~IsNaS(a.Descricao) /\ IsNaS(b.Descricao)
          \/ /\ ~IsNaS(a.Descricao) /\ ~IsNaS(b.Descricao)
             /\ TextLess(a.Descricao, b.Descricao)

\* put row r into the sorted rows after every row that does not sort after it
RECURSIVE InsertSorted(_, _)
InsertSorted(r, sorted) ==
    IF sorted = <<>> THEN <<r>>
    ELSE IF SortsBefore(r, sorted[1]) THEN <<r>> \o sorted
    ELSE <<sorted[1]>> \o InsertSorted(r, Tail(sorted))

\* the multi-key sort of sort_values is a stable (lexsort) sort
RECURSIVE StableSort(_)
StableSort(rows) ==
    IF rows = <<>> THEN <<>>
    ELSE InsertSorted(rows[Len(rows)],
                      StableSort(SubSeq(rows, 1, Len(rows) - 1)))

\* lines 161-166
ApplySorting(df) == Frame(df.cols, StableSort(df.rows))

----------------------------------------------------------------------------
(* ComparisonService._merge_mazza_report *)

MazzaEntry(codigo, nome, quantidade) ==
    [CODIGO |-> codigo, NOME |-> nome, QUANTIDADE |-> quantidade]

\* lines 179-180: the two new columns, None in every row
InitMazzaColumns(df) ==
    Frame(WithCol(WithCol(df.cols, "SaidasVD"), "SaidasTotal"),
          [i \in 1..Len(df.rows) |->
              [df.rows[i] EXCEPT !.SaidasVD = NaN, !.SaidasTotal = NaN]])

\* the keys of the new_row dict, in order
MazzaRowCols ==
    <<"CodLoja", "Codigo", "Descricao", "Grupo", "Estoque", "Pedido",
      "Total", "Saidas", "SaidasVD", "SaidasTotal", "Sugestao">>

\* the columns of pd.concat([a, b]): those of a, then the new ones of b
ConcatCols(cols, more) ==
    cols \o SelectSeq(more, LAMBDA c : ~HasCol(cols, c))

\* new_row with the quantity also written to Saidas
NewMazzaRow_WithSaidas(entry, store) ==
    [CodLoja |-> store, Codigo |-> entry.CODIGO, Descricao |-> entry.NOME,
     Grupo |-> NaS, Estoque |-> NaN, Pedido |-> NaN, Total |-> NaN,
     Saidas |-> entry.QUANTIDADE, SaidasVD |-> entry.QUANTIDADE,
     SaidasTotal |-> entry.QUANTIDADE, Sugestao |-> NaN]

\* lines 201-213
NewMazzaRow(entry, store) ==
    [CodLoja |-> store, Codigo |-> entry.CODIGO, Descricao |-> entry.NOME,
     Grupo |-> NaS, Estoque |-> NaN, Pedido |-> NaN, Total |-> NaN,
     Saidas |-> NaN, SaidasVD |-> entry.QUANTIDADE,
     SaidasTotal |-> entry.QUANTIDADE, Sugestao |-> NaN]

\* result_df.loc[mask, col].iloc[0]: the first row carrying the code
FirstWithCode(rows, codigo) ==
    rows[CHOOSE i \in 1..Len(rows) :
            /\ rows[i].Codigo = codigo
            /\ \A j \in 1..(i - 1) : rows[j].Codigo # codigo]

\* the matched branch with Saidas VD set to the entry's quantity alone
MergeMatched_Overwrite(rows, entry) ==
    LET first == FirstWithCode(rows, entry.CODIGO)
        current_saidas == Nz(first.Saidas)
    IN  [i \in 1..Len(rows) |->
            IF rows[i].Codigo = entry.CODIGO
            THEN [rows[i] EXCEPT
                    !.SaidasVD = entry.QUANTIDADE,
                    !.SaidasTotal = PyAdd(Num(current_saidas), entry.QUANTIDADE)]
            ELSE rows[i]]

\* lines 190-198: every row of the mask gets the values computed from the
\* first row of the mask
MergeMatched(rows, entry) ==
    LET first == FirstWithCode(rows, entry.CODIGO)
        current_saidas == Nz(first.Saidas)
        current_saidas_vd == Nz(first.SaidasVD)
    IN  [i \in 1..Len(rows) |->
            IF rows[i].Codigo = entry.CODIGO
            THEN [rows[i] EXCEPT
                    !.SaidasVD = PyAdd(Num(current_saidas_vd), entry.QUANTIDADE),
                    !.SaidasTotal = PyAdd(Num(current_saidas + current_saidas_vd),
                                          entry.QUANTIDADE)]
            ELSE rows[i]]

\* MergeMazzaEntry with the new record put at its place in the sort order
MergeMazzaEntry_Resorted(df, entry, store, existing) ==
    IF entry.CODIGO \in existing
    THEN Frame(df.cols, MergeMatched(df.rows, entry))
    ELSE Frame(ConcatCols(df.cols, MazzaRowCols),
               InsertSorted(NewMazzaRow(entry, store), df.rows))

\* lines 185-217: the body of the loop for one ranking entry
MergeMazzaEntry(df, entry, store, existing) ==
    IF entry.CODIGO \in existing
    THEN Frame(df.cols, MergeMatched(df.rows, entry))
    ELSE Frame(ConcatCols(df.cols, MazzaRowCols),
               Append(df.rows, NewMazzaRow(entry, store)))

IndexOf(cols, c) == CHOOSE i \in 1..Len(cols) : cols[i] = c

\* list.insert(idx, c) with idx counted from 1
InsertAt(cols, idx, c) ==
    SubSeq(cols, 1, idx - 1) \o <<c>> \o SubSeq(cols, idx, Len(cols))

\* the two new columns left where the assignment put them, at the end
ReorderMazzaCols_LeftLast(cols) == cols

\* lines 219-227
ReorderMazzaCols(cols) ==
    IF HasCol(cols, "Sugestao") /\ HasCol(cols, "Saidas")
    THEN LET rest == RemoveCol(RemoveCol(cols, "SaidasVD"), "SaidasTotal")
             sugestao_idx == IndexOf(rest, "Sugestao")
         IN  InsertAt(InsertAt(rest, sugestao_idx, "SaidasTotal"),
                      sugestao_idx, "SaidasVD")
    ELSE cols

----------------------------------------------------------------------------
(* ComparisonService.compare *)

\* line 253
CompareStoreName(inv) ==
    IF Len(inv) > 0 THEN PyStr(inv[1].Loja) ELSE StrCell("Unknown")

\* str() applied to the None of an empty inventory as well
CompareStoreCode_StrOfNone(inv) ==
    PyStr(IF Len(inv) > 0 THEN inv[1].CodLoja ELSE NoneCell)

\* line 259
CompareStoreCode(inv) ==
    IF Len(inv) > 0 THEN PyStr(inv[1].CodLoja) ELSE NoneCell

\* the gate of line 265 without the test of the store
MazzaApplies_AnyStore(report, store) == report.given

\* line 265
MazzaApplies(report, store) == report.given /\ store = DesignatedStore

\* lines 270-274
StoreFirst(cols) ==
    IF HasCol(cols, "CodLoja")
    THEN <<"CodLoja">> \o RemoveCol(cols, "CodLoja")
    ELSE cols

----------------------------------------------------------------------------
(* Text literals used by the services and by the inputs *)

T1014 == <<"1", "0", "1", "4">>

T1013 == <<"1", "0", "1", "3">>

T1010 == <<"1", "0", "1", "0">>

TFuncionais == <<"F", "u", "n", "c", "i", "o", "n", "a", "i", "s">>

TPascoa == <<"P", "a", "s", "c", "o", "a">>

TOutros == <<"O", "u", "t", "r", "o", "s">>

TSep == <<" ", "-", " ">>

G1014Funcionais == T1014 \o TSep \o TFuncionais

G1013Pascoa == T1013 \o TSep \o TPascoa

G1010Outros == T1010 \o TSep \o TOutros

----------------------------------------------------------------------------
(* Inputs of a direct call of _compare_and_merge *)

MaxWeekly == 2

MaxInventory == 2

WeeklyCodes == {"1234567", "2345678"}

InventoryCodeSet == {"1234567", "3456789"}

\* sequences of length <= n over S
SeqsUpTo(S, n) == UNION {[1..k -> S] : k \in 0..n}

\* product_code is the key of the base record set: no code repeats
UniqueCodes(rows) ==
    \A i, j \in 1..Len(rows) : rows[i].Codigo = rows[j].Codigo => i = j

MergeWeeklyRows ==
    {WeeklyRow(c, <<"B">>, g, e, p, PyAdd(e, Num(Nz(p))), Num(2)) :
        c \in WeeklyCodes, g \in {<<>>, NaS, G1010Outros},
        e \in {Num(0), Num(100)}, p \in {NaN, Num(25)}}

MergeInventoryRows ==
    {InventoryRow(StrCell("6835"), c, g[1], g[2], g[3], q) :
        c \in InventoryCodeSet,
        g \in {<<<<"A">>, T1014, TFuncionais>>, <<<<"C">>, <<>>, TPascoa>>,
               <<<<"A">>, <<>>, <<>>>>},
        q \in {Num(100), Num(150)}}

NoReport == [given |-> FALSE, rows |-> <<>>]

InitMerge ==
    /\ pc = "merge"
    /\ weekly_df \in {Frame(WeeklyCols, rows) :
            rows \in {r \in SeqsUpTo(MergeWeeklyRows, MaxWeekly) : UniqueCodes(r)}}
    /\ inventory_df \in SeqsUpTo(MergeInventoryRows, MaxInventory)
    /\ mazza_report = NoReport
    /\ result_df = NoFrame
    /\ df_output = NoFrame
    /\ store_code = NoneCell
    /\ store_name = NoneCell
    /\ given_df = NoFrame
    /\ mazza_i = 0
    /\ existing_codes = {}
    /\ NoParse
    /\ NoPdfs
    /\ NoText

\* compare line 256 / a direct call of _compare_and_merge
CompareAndMergeStep ==
    /\ pc = "merge"
    /\ result_df' = CompareAndMerge(weekly_df, inventory_df)
    /\ pc' = "merged"
    /\ UNCHANGED <<weekly_df, inventory_df, mazza_report, df_output,
                   store_code, store_name, given_df, mazza_i, existing_codes>>
    /\ UNCHANGED <<parser_vars, pdfs_vars, text_vars>>

NextMerge == CompareAndMergeStep

SpecMerge == InitMerge /\ [][NextMerge]_vars

----------------------------------------------------------------------------
(* Properties of _compare_and_merge *)

BaseRows == weekly_df.rows

NBase == Len(weekly_df.rows)

InInventory(code) == \E k \in 1..Len(inventory_df) : inventory_df[k].CodProduto = code

InBase(code) == \E i \in 1..NBase : BaseRows[i].Codigo = code

\* C1: after _compare_and_merge a base record whose code the inventory lists
\* has the inventory quantity of that code as on-hand, a base record whose
\* code the inventory lacks has on-hand 0, and whenever on-hand changed the
\* total is the new on-hand plus pending, a null pending counting as 0.
C1_OnHandFollowsInventory ==
    pc = "merged" =>
        /\ Len(result_df.rows) >= NBase
        /\ \A i \in 1..NBase :
            LET b == BaseRows[i]
                r == result_df.rows[i]
            IN  /\ r.Codigo = b.Codigo
                /\ InInventory(b.Codigo) =>
                       \E k \in 1..Len(inventory_df) :
                           /\ inventory_df[k].CodProduto = b.Codigo
                           /\ r.Estoque = inventory_df[k].Quantidade
                /\ ~InInventory(b.Codigo) => r.Estoque = Num(0)
                /\ r.Estoque # b.Estoque =>
                       r.Total = Num(r.Estoque[1] +
                                     (IF b.Pedido = NaN THEN 0 ELSE b.Pedido[1]))
                /\ r.Estoque = b.Estoque => r.Total = b.Total

\* on-hand 100, pending 25, inventory 150 gives 150 and 175; on-hand 100,
\* pending 25, absent from the inventory gives 0 and 25
C1_Witness ==
    /\ pc = "merged"
    /\ \E i \in 1..NBase :
        /\ BaseRows[i].Estoque = Num(100) /\ BaseRows[i].Pedido = Num(25)
        /\ InInventory(BaseRows[i].Codigo)
        /\ result_df.rows[i].Estoque = Num(150)
        /\ result_df.rows[i].Total = Num(175)
    /\ \E i \in 1..NBase :
        /\ BaseRows[i].Estoque = Num(100) /\ BaseRows[i].Pedido = Num(25)
        /\ ~InInventory(BaseRows[i].Codigo)
        /\ result_df.rows[i].Estoque = Num(0)
        /\ result_df.rows[i].Total = Num(25)

\* the record _compare_and_merge is to create for inventory row inv_row
InjectedRecord(inv_row) ==
    [CodLoja |-> inv_row.CodLoja, Codigo |-> inv_row.CodProduto,
     Descricao |-> inv_row.DescProduto,
     Grupo |-> Strip(inv_row.CodGrupo \o <<" ", "-", " ">> \o inv_row.DescGrupo,
                     {" ", "-"}),
     Estoque |-> inv_row.Quantidade, Pedido |-> NaN,
     Total |-> inv_row.Quantidade, Saidas |-> Num(0),
     SaidasVD |-> NaN, SaidasTotal |-> NaN, Sugestao |-> NaN]

\* C2: for every inventory code absent from the base set a record is appended
\* with description and group "<group_code> - <group_label>" of the inventory
\* row, on-hand = inventory quantity, pending null, total = on-hand,
\* outbound 0 and suggestion null; no record is appended for a code of the
\* base set.
C2_NewProductInjection ==
    pc = "merged" =>
        /\ \A k \in 1..Len(inventory_df) :
            ~InBase(inventory_df[k].CodProduto) =>
                \E j \in (NBase + 1)..Len(result_df.rows) :
                    /\ result_df.rows[j] = InjectedRecord(inventory_df[k])
                    /\ (inventory_df[k].CodGrupo # <<>> /\ inventory_df[k].DescGrupo # <<>>)
                          => result_df.rows[j].Grupo =
                                inventory_df[k].CodGrupo \o <<" ", "-", " ">>
                                    \o inventory_df[k].DescGrupo
        /\ \A j \in (NBase + 1)..Len(result_df.rows) :
            /\ ~InBase(result_df.rows[j].Codigo)
            /\ InInventory(result_df.rows[j].Codigo)

C2_Witness ==
    /\ pc = "merged"
    /\ NBase = 1
    /\ Len(inventory_df) = 2
    /\ InBase(inventory_df[1].CodProduto)
    /\ ~InBase(inventory_df[2].CodProduto)
    /\ Len(result_df.rows) = 2
    /\ result_df.rows[2].Grupo = G1014Funcionais
    /\ result_df.rows[2].Estoque = Num(150)
    /\ result_df.rows[2].Total = Num(150)
    /\ result_df.rows[2].Pedido = NaN

NonEmptyGroup(g) == g # NaS /\ g # <<>>

\* C10: a base record whose group is non-empty keeps its group and its
\* description through _compare_and_merge, whatever the inventory holds.
C10_NonEmptyGroupKept ==
    pc = "merged" =>
        \A i \in 1..NBase :
            NonEmptyGroup(BaseRows[i].Grupo) =>
                /\ result_df.rows[i].Grupo = BaseRows[i].Grupo
                /\ result_df.rows[i].Descricao = BaseRows[i].Descricao

C10_Witness ==
    /\ pc = "merged"
    /\ \E i \in 1..NBase, k \in 1..Len(inventory_df) :
        /\ BaseRows[i].Grupo = G1010Outros
        /\ inventory_df[k].CodProduto = BaseRows[i].Codigo
        /\ inventory_df[k].DescProduto # BaseRows[i].Descricao
        /\ inventory_df[k].CodGrupo = T1014
        /\ result_df.rows[i].Grupo = G1010Outros
        /\ result_df.rows[i].Estoque = inventory_df[k].Quantidade

EmptyGroup(g) == g = NaS \/ g = <<>>

\* "<group_code> - <group_label>" without stray separators at either end
TrimmedLabel(cod, lab) ==
    IF cod # <<>> /\ lab # <<>> THEN cod \o <<" ", "-", " ">> \o lab
    ELSE IF cod # <<>> THEN cod
    ELSE lab

----------------------------------------------------------------------------
(* Inputs of a direct call of _apply_sorting *)

MaxSort == 3

MergedCols == Append(WeeklyCols, "CodLoja")

G1014Pascoa == T1014 \o TSep \o TPascoa

SortRows ==
    {[WeeklyRow("1234567", d, g, Num(100), NaN, Num(100), Num(2))
         EXCEPT !.CodLoja = StrCell("6835")] :
        d \in {<<"A">>, <<"B">>, NaS},
        g \in {G1014Funcionais, G1013Pascoa, G1010Outros, G1014Pascoa, <<>>}}

InitSort ==
    /\ pc = "sort"
    /\ weekly_df = NoFrame
    /\ inventory_df = <<>>
    /\ mazza_report = NoReport
    /\ result_df \in {Frame(MergedCols, rows) : rows \in SeqsUpTo(SortRows, MaxSort)}
    /\ df_output = NoFrame
    /\ store_code = NoneCell
    /\ store_name = NoneCell
    /\ given_df = NoFrame
    /\ mazza_i = 0
    /\ existing_codes = {}
    /\ NoParse
    /\ NoPdfs
    /\ NoText

\* compare line 262 / a direct call of _apply_sorting
ApplySortingStep ==
    /\ pc = "sort"
    /\ df_output' = ApplySorting(result_df)
    /\ pc' = "sorted"
    /\ UNCHANGED <<weekly_df, inventory_df, mazza_report, result_df,
                   store_code, store_name, given_df, mazza_i, existing_codes>>
    /\ UNCHANGED <<parser_vars, pdfs_vars, text_vars>>

NextSort == ApplySortingStep

SpecSort == InitSort /\ [][NextSort]_vars

----------------------------------------------------------------------------
(* Properties of _apply_sorting *)

Count(rows, r) == Cardinality({i \in 1..Len(rows) : rows[i] = r})

IsPermutation(a, b) ==
    /\ Len(a) = Len(b)
    /\ \A i \in 1..Len(a) : Count(a, a[i]) = Count(b, a[i])

HasBoth(g, x, y) == Contains(g, x) /\ Contains(g, y)

\* the tier of a group as the sort contract states it
Tier(g) ==
    IF HasBoth(g, T1014, TFuncionais) THEN 0
    ELSE IF HasBoth(g, T1013, TPascoa) THEN 2
    ELSE 1

\* ascending description, a missing description after every text
DescInOrder(a, b) ==
    \/ b = NaS
    \/ a # NaS /\ (a = b \/ TextLess(a, b))

----------------------------------------------------------------------------
(* The compare pipeline: lines 248-274 *)

MaxMazza == 2

CompareWeeklyRows ==
    {WeeklyRow(c, <<"B">>, G1013Pascoa, Num(100), Num(25), Num(125), sd) :
        c \in WeeklyCodes, sd \in {NaN, Num(20)}}

CompareInventoryRows ==
    {InventoryRow(l, c, <<"A">>, T1014, TFuncionais, Num(150)) :
        l \in {StrCell("1225"), StrCell("6835")}, c \in InventoryCodeSet}

MazzaCodes == {"1234567", "9999999"}

MazzaEntries ==
    {MazzaEntry(c, <<"C">>, q) : c \in MazzaCodes, q \in {Num(50), Num(100)}}

MazzaReports ==
    {NoReport} \cup
    {[given |-> TRUE, rows |-> r] : r \in SeqsUpTo(MazzaEntries, MaxMazza)}

Init ==
    /\ pc = "compare"
    /\ weekly_df \in {Frame(WeeklyCols, rows) :
            rows \in {r \in SeqsUpTo(CompareWeeklyRows, MaxWeekly) : UniqueCodes(r)}}
    /\ inventory_df \in SeqsUpTo(CompareInventoryRows, MaxInventory)
    /\ mazza_report \in MazzaReports
    /\ result_df = NoFrame
    /\ df_output = NoFrame
    /\ store_code = NoneCell
    /\ store_name = NoneCell
    /\ given_df = NoFrame
    /\ mazza_i = 0
    /\ existing_codes = {}
    /\ NoParse
    /\ NoPdfs
    /\ NoText

\* line 253
GetStoreName ==
    /\ pc = "compare"
    /\ store_name' = CompareStoreName(inventory_df)
    /\ pc' = "merge"
    /\ UNCHANGED <<weekly_df, inventory_df, mazza_report, result_df, df_output,
                   store_code, given_df, mazza_i, existing_codes>>
    /\ UNCHANGED <<parser_vars, pdfs_vars, text_vars>>

\* line 259
GetStoreCode ==
    /\ pc = "merged"
    /\ store_code' = CompareStoreCode(inventory_df)
    /\ pc' = "sort"
    /\ UNCHANGED <<weekly_df, inventory_df, mazza_report, result_df, df_output,
                   store_name, given_df, mazza_i, existing_codes>>
    /\ UNCHANGED <<parser_vars, pdfs_vars, text_vars>>

\* result_df of _merge_mazza_report is still the frame it was called with:
\* the assignments of lines 179-180 and 198-199 write into that frame, and
\* pd.concat (line 214) binds result_df to a new frame with one more row
SharesGiven(local, given) == Len(local.rows) = Len(given.rows)

\* lines 265-267 and 179-183: the ranking report is read and merged
MazzaStart ==
    /\ pc = "sorted"
    /\ MazzaApplies(mazza_report, store_code)
    /\ df_output' = InitMazzaColumns(df_output)
    /\ given_df' = InitMazzaColumns(df_output)
    /\ existing_codes' = FrameCodes(df_output.rows)
    /\ mazza_i' = 1
    /\ pc' = "mazza_loop"
    /\ UNCHANGED <<weekly_df, inventory_df, mazza_report, result_df, store_code,
                   store_name>>
    /\ UNCHANGED <<parser_vars, pdfs_vars, text_vars>>

\* line 265, the condition false
MazzaSkip ==
    /\ pc = "sorted"
    /\ ~MazzaApplies(mazza_report, store_code)
    /\ pc' = "reorder"
    /\ UNCHANGED <<weekly_df, inventory_df, mazza_report, result_df, df_output,
                   store_code, store_name, given_df, mazza_i, existing_codes>>
    /\ UNCHANGED <<parser_vars, pdfs_vars, text_vars>>

\* lines 198-199 add a number and a text: Python raises TypeError
MazzaRaises(df, entry, existing) ==
    /\ entry.CODIGO \in existing
    /\ LET row == FirstWithCode(df.rows, entry.CODIGO)
           operands == {row.Saidas, row.SaidasVD, entry.QUANTIDADE}
       IN  /\ \E x \in operands : IsText(x)
           /\ \E x \in operands : ~IsText(x)

\* lines 185-217: one ranking entry
MazzaRow ==
    /\ pc = "mazza_loop"
    /\ mazza_i <= Len(mazza_report.rows)
    /\ ~MazzaRaises(df_output, mazza_report.rows[mazza_i], existing_codes)
    /\ df_output' = MergeMazzaEntry(df_output, mazza_report.rows[mazza_i],
                                    store_code, existing_codes)
    /\ given_df' = IF /\ SharesGiven(df_output, given_df)
                      /\ mazza_report.rows[mazza_i].CODIGO \in existing_codes
                   THEN df_output'
                   ELSE given_df
    /\ existing_codes' = existing_codes \cup {mazza_report.rows[mazza_i].CODIGO}
    /\ mazza_i' = mazza_i + 1
    /\ UNCHANGED <<pc, weekly_df, inventory_df, mazza_report, result_df, store_code,
                   store_name>>
    /\ UNCHANGED <<parser_vars, pdfs_vars, text_vars>>

\* lines 219-229: the loop is over
MazzaReorder ==
    /\ pc = "mazza_loop"
    /\ mazza_i > Len(mazza_report.rows)
    /\ df_output' = Frame(ReorderMazzaCols(df_output.cols), df_output.rows)
    /\ pc' = "reorder"
    /\ UNCHANGED <<weekly_df, inventory_df, mazza_report, result_df, store_code,
                   store_name, given_df,
                   mazza_i, existing_codes>>
    /\ UNCHANGED <<parser_vars, pdfs_vars, text_vars>>

\* lines 269-274
StoreColumnFirst ==
    /\ pc = "reorder"
    /\ df_output' = Frame(StoreFirst(df_output.cols), df_output.rows)
    /\ pc' = "done"
    /\ UNCHANGED <<weekly_df, inventory_df, mazza_report, result_df, store_code,
                   store_name, given_df,
                   mazza_i, existing_codes>>
    /\ UNCHANGED <<parser_vars, pdfs_vars, text_vars>>

Next ==
    \/ GetStoreName
    \/ CompareAndMergeStep
    \/ GetStoreCode
    \/ ApplySortingStep
    \/ MazzaStart
    \/ MazzaSkip
    \/ MazzaRow
    \/ MazzaReorder
    \/ StoreColumnFirst

Spec == Init /\ [][Next]_vars

----------------------------------------------------------------------------
(* Properties of the ranking merge *)

RankingRows == mazza_report.rows

InRanking(code) == \E k \in 1..Len(RankingRows) : RankingRows[k].CODIGO = code

\* the sum of the ranking quantities of a code over the whole ranking dataset
RECURSIVE RankingSum(_, _)
RankingSum(entries, code) ==
    IF entries = <<>> THEN 0
    ELSE (IF entries[1].CODIGO = code THEN entries[1].QUANTIDADE[1] ELSE 0)
         + RankingSum(Tail(entries), code)

RankingMerged == pc \in {"reorder", "done"} /\ HasCol(df_output.cols, "SaidasVD")

MinimalRecord(entry) ==
    [CodLoja |-> StrCell("1225"), Codigo |-> entry.CODIGO,
     Descricao |-> entry.NOME, Grupo |-> NaS, Estoque |-> NaN,
     Pedido |-> NaN, Total |-> NaN, Saidas |-> NaN,
     SaidasVD |-> entry.QUANTIDADE, SaidasTotal |-> entry.QUANTIDADE,
     Sugestao |-> NaN]

AtUnmatchedEntry ==
    /\ pc = "mazza_loop"
    /\ mazza_i <= Len(RankingRows)
    /\ \A i \in 1..Len(df_output.rows) :
        df_output.rows[i].Codigo # RankingRows[mazza_i].CODIGO

CompareWithoutRanking ==
    LET sorted == ApplySorting(CompareAndMerge(weekly_df, inventory_df))
    IN  Frame(StoreFirst(sorted.cols), sorted.rows)

NotDesignated ==
    Len(inventory_df) = 0 \/ inventory_df[1].CodLoja.v # "1225"

\* C9: with a ranking dataset supplied and a store code (that of the first
\* inventory row, null for an empty inventory) other than "1225", compare
\* returns what it returns without a ranking dataset: same records, values,
\* attributes and order.
C9_RankingGatedOnStore ==
    (pc = "done" /\ mazza_report.given /\ NotDesignated) =>
        /\ df_output = CompareWithoutRanking
        /\ ~HasCol(df_output.cols, "SaidasVD")
        /\ ~HasCol(df_output.cols, "SaidasTotal")
        /\ Len(df_output.rows) = Len(result_df.rows)

C9_Witness ==
    /\ pc = "done"
    /\ mazza_report.given
    /\ Len(RankingRows) = 2
    /\ Len(inventory_df) > 0
    /\ inventory_df[1].CodLoja = StrCell("6835")
    /\ \E i \in 1..Len(df_output.rows) : InRanking(df_output.rows[i].Codigo)
    /\ \E k \in 1..2 : RankingRows[k].CODIGO = "9999999"
    /\ df_output = CompareWithoutRanking

----------------------------------------------------------------------------
(* pdf_parser.py: characters, int() and the regular expressions.           *)
(* A match is NoMatch or [start, end, group]: the index of its first       *)
(* character, the index after its last one, and the text of group 1.       *)

\* the characters \s matches that occur in extracted text lines
Whitespace == {" ", "\t"}

DigitChars == <<"0", "1", "2", "3", "4", "5", "6", "7", "8", "9">>

\* the characters \d matches
Digits == {DigitChars[k] : k \in 1..10}

LowerChars ==
    <<"a", "b", "c", "d", "e", "f", "g", "h", "i", "j", "k", "l", "m",
      "n", "o", "p", "q", "r", "s", "t", "u", "v", "w", "x", "y", "z">>

UpperChars ==
    <<"A", "B", "C", "D", "E", "F", "G", "H", "I", "J", "K", "L", "M",
      "N", "O", "P", "Q", "R", "S", "T", "U", "V", "W", "X", "Y", "Z">>

\* str.upper()
Upper(s) ==
    [k \in 1..Len(s) |->
        IF \E n \in 1..26 : LowerChars[n] = s[k]
        THEN UpperChars[CHOOSE n \in 1..26 : LowerChars[n] = s[k]]
        ELSE s[k]]

\* int() of a text of digits
RECURSIVE PyInt(_)
PyInt(s) ==
    IF s = <<>> THEN 0
    ELSE 10 * PyInt(SubSeq(s, 1, Len(s) - 1))
         + (CHOOSE d \in 0..9 : DigitChars[d + 1] = s[Len(s)])

MinOf(S) == CHOOSE x \in S : \A y \in S : x <= y

\* a greedy run (\d+, \s*): the index after the longest run of chars at p
RECURSIVE RunEnd(_, _, _)
RunEnd(s, p, chars) ==
    IF p <= Len(s) /\ s[p] \in chars THEN RunEnd(s, p + 1, chars) ELSE p

CharAt(s, p, c) == p >= 1 /\ p <= Len(s) /\ s[p] = c

NoMatch == [start |-> 0, end |-> 0, group |-> <<>>]

\* ^([12]\d{6})$
code_match(line) ==
    /\ Len(line) = 7
    /\ line[1] \in {"1", "2"}
    /\ \A k \in 2..7 : line[k] \in Digits

\* ^(\d+)[,.]0{3}$
qty_match(qty_line) ==
    LET e == RunEnd(qty_line, 1, Digits)
    IN  IF /\ e > 1
           /\ Len(qty_line) = e + 3
           /\ qty_line[e] \in {",", "."}
           /\ \A k \in (e + 1)..(e + 3) : qty_line[k] = "0"
        THEN [start |-> 1, end |-> e + 4, group |-> SubSeq(qty_line, 1, e - 1)]
        ELSE NoMatch

\* ^(\d+)[,.]0{3}\s*$
qty_match_pedido(qty_line) == qty_match(RStrip(qty_line, Whitespace))

\* item_match without the test on the remainder
item_match_AnyNumber(line) ==
    /\ Len(line) \in {2, 3}
    /\ \A k \in 1..Len(line) : line[k] \in Digits

\* re.match(r"^\d{2,3}$", line) and int(line) % 10 == 0
item_match(line) ==
    /\ Len(line) \in {2, 3}
    /\ \A k \in 1..Len(line) : line[k] \in Digits
    /\ PyInt(line) % 10 = 0

\* \d+(?:[seps]\d+)?(?:G|KG)X(\d+)U(?:N)? tried at index p
WeightUnitsAt(s, p, seps) ==
    LET a == RunEnd(s, p, Digits)
        b == IF /\ a <= Len(s)
                /\ s[a] \in seps
                /\ RunEnd(s, a + 1, Digits) > a + 1
             THEN RunEnd(s, a + 1, Digits)
             ELSE a
        c == IF CharAt(s, b, "G") THEN b + 1
             ELSE IF CharAt(s, b, "K") /\ CharAt(s, b + 1, "G") THEN b + 2
             ELSE 0
        d == RunEnd(s, c + 1, Digits)
    IN  IF /\ a > p
           /\ c > 0
           /\ CharAt(s, c, "X")
           /\ d > c + 1
           /\ CharAt(s, d, "U")
        THEN [start |-> p,
              end |-> IF CharAt(s, d + 1, "N") THEN d + 2 ELSE d + 1,
              group |-> SubSeq(s, c + 1, d - 1)]
        ELSE NoMatch

\* X(\d+)UN tried at index p
XUnitsAt(s, p) ==
    LET d == RunEnd(s, p + 1, Digits)
    IN  IF /\ CharAt(s, p, "X")
           /\ d > p + 1
           /\ CharAt(s, d, "U")
           /\ CharAt(s, d + 1, "N")
        THEN [start |-> p, end |-> d + 2, group |-> SubSeq(s, p + 1, d - 1)]
        ELSE NoMatch

\* \s+X\s+(\d+)\s*$ tried at index p
TrailingXAt(s, p) ==
    LET w == RunEnd(s, p, Whitespace)
        x == RunEnd(s, w + 1, Whitespace)
        d == RunEnd(s, x, Digits)
    IN  IF /\ w > p
           /\ CharAt(s, w, "X")
           /\ x > w + 1
           /\ d > x
           /\ RunEnd(s, d, Whitespace) = Len(s) + 1
        THEN [start |-> p, end |-> Len(s) + 1, group |-> SubSeq(s, x, d - 1)]
        ELSE NoMatch

\* (\d+)UN tried at index p
UnitsAt(s, p) ==
    LET d == RunEnd(s, p, Digits)
    IN  IF d > p /\ CharAt(s, d, "U") /\ CharAt(s, d + 1, "N")
        THEN [start |-> p, end |-> d + 2, group |-> SubSeq(s, p, d - 1)]
        ELSE NoMatch

\* re.search: the match at the leftmost index, from p on, at which the
\* pattern matches
RECURSIVE SearchWeightUnits(_, _, _)
SearchWeightUnits(s, p, seps) ==
    IF p > Len(s) THEN NoMatch
    ELSE LET m == WeightUnitsAt(s, p, seps)
         IN  IF m # NoMatch THEN m ELSE SearchWeightUnits(s, p + 1, seps)

RECURSIVE SearchXUnits(_, _)
SearchXUnits(s, p) ==
    IF p > Len(s) THEN NoMatch
    ELSE LET m == XUnitsAt(s, p)
         IN  IF m # NoMatch THEN m ELSE SearchXUnits(s, p + 1)

RECURSIVE SearchTrailingX(_, _)
SearchTrailingX(s, p) ==
    IF p > Len(s) THEN NoMatch
    ELSE LET m == TrailingXAt(s, p)
         IN  IF m # NoMatch THEN m ELSE SearchTrailingX(s, p + 1)

RECURSIVE SearchUnits(_, _)
SearchUnits(s, p) ==
    IF p > Len(s) THEN NoMatch
    ELSE LET m == UnitsAt(s, p)
         IN  IF m # NoMatch THEN m ELSE SearchUnits(s, p + 1)

----------------------------------------------------------------------------
(* PDFParserService.extract_units_from_description                         *)

\* the trailing "X <number>" tried before the other three patterns
extract_units_from_description_TrailingFirst(description) ==
    IF description \in {NoDescription, <<>>} THEN 1
    ELSE LET desc_upper == Upper(description)
             m1 == SearchWeightUnits(desc_upper, 1, {",", "."})
             m2 == SearchXUnits(desc_upper, 1)
             m3 == SearchTrailingX(desc_upper, 1)
             m4 == SearchUnits(desc_upper, 1)
         IN  IF m3 # NoMatch THEN PyInt(m3.group)
             ELSE IF m1 # NoMatch THEN PyInt(m1.group)
             ELSE IF m2 # NoMatch THEN PyInt(m2.group)
             ELSE IF m4 # NoMatch THEN PyInt(m4.group)
             ELSE 1

extract_units_from_description(description) ==
    IF description \in {NoDescription, <<>>} THEN 1
    ELSE LET desc_upper == Upper(description)
             m1 == SearchWeightUnits(desc_upper, 1, {",", "."})
             m2 == SearchXUnits(desc_upper, 1)
             m3 == SearchTrailingX(desc_upper, 1)
             m4 == SearchUnits(desc_upper, 1)
         IN  IF m1 # NoMatch THEN PyInt(m1.group)
             ELSE IF m2 # NoMatch THEN PyInt(m2.group)
             ELSE IF m3 # NoMatch THEN PyInt(m3.group)
             ELSE IF m4 # NoMatch THEN PyInt(m4.group)
             ELSE 1

----------------------------------------------------------------------------
(* PDFParserService.normalize_description                                  *)

\* \s*\d+(?:,\d+)?(?:G|KG)X\d+U(?:N)?\s* tried at index p
PackagingAt(s, p) ==
    LET m == WeightUnitsAt(s, RunEnd(s, p, Whitespace), {","})
    IN  IF RunEnd(s, p, Whitespace) <= Len(s) /\ m # NoMatch
        THEN [start |-> p, end |-> RunEnd(s, m.end, Whitespace), group |-> <<>>]
        ELSE NoMatch

\* re.sub(packaging, " ", s) on the text from index p on
RECURSIVE SubPackaging(_, _)
SubPackaging(s, p) ==
    IF p > Len(s) THEN <<>>
    ELSE LET m == PackagingAt(s, p)
         IN  IF m # NoMatch THEN <<" ">> \o SubPackaging(s, m.end)
             ELSE <<s[p]>> \o SubPackaging(s, p + 1)

\* str.split()
RECURSIVE Split(_)
Split(s) ==
    LET t == LStrip(s, Whitespace)
        e == MinOf({q \in 1..(Len(t) + 1) :
                        q = Len(t) + 1 \/ t[q] \in Whitespace})
    IN  IF t = <<>> THEN <<>>
        ELSE <<SubSeq(t, 1, e - 1)>> \o Split(SubSeq(t, e, Len(t)))

\* the words joined with nothing between them
RECURSIVE Join_NoSeparator(_)
Join_NoSeparator(words) ==
    IF words = <<>> THEN <<>>
    ELSE IF Len(words) = 1 THEN words[1]
    ELSE words[1] \o Join_NoSeparator(Tail(words))

\* " ".join(words)
RECURSIVE Join(_)
Join(words) ==
    IF words = <<>> THEN <<>>
    ELSE IF Len(words) = 1 THEN words[1]
    ELSE words[1] \o <<" ">> \o Join(Tail(words))

normalize_description(description) ==
    IF description \in {NoDescription, <<>>} THEN <<>>
    ELSE LET m == SearchTrailingX(description, 1)
             desc == IF m = NoMatch THEN description
                     ELSE SubSeq(description, 1, m.start - 1)
         IN  Join(Split(SubPackaging(desc, 1)))

----------------------------------------------------------------------------
(* PDFParserService.parse_nf_pdf and parse_pedido_pdf.  A document is the  *)
(* sequence `lines` of its extracted text; the code counts lines from 0,   *)
(* a sequence from 1.  The two dicts travel together as                    *)
(* [quantities, descriptions].                                             *)

\* lines[j].strip()
StrippedLine(ls, j) == Strip(ls[j + 1], Whitespace)

Min2(a, b) == IF a <= b THEN a ELSE b

\* a lookahead that ends one line later
NfWindowEnd_OneMore(k, n) == Min2(k + 11, n)

\* the end of range(i + 2, min(i + 10, len(lines)))
NfWindowEnd(k, n) == Min2(k + 10, n)

\* the end of range(i + 3, min(i + 8, len(lines)))
PedidoWindowEnd(k, n) == Min2(k + 8, n)

\* parse_nf_pdf lines 110-116: the integer of the first line of
\* range(j, end) that matches the quantity pattern, 0 when none does
RECURSIVE NfWindowQty(_, _, _)
NfWindowQty(ls, j, end) ==
    IF j >= end THEN 0
    ELSE LET qty_line == StrippedLine(ls, j)
         IN  IF qty_match(qty_line) # NoMatch
             THEN PyInt(qty_match(qty_line).group)
             ELSE NfWindowQty(ls, j + 1, end)

\* parse_pedido_pdf lines 184-192
RECURSIVE PedidoWindowQty(_, _, _)
PedidoWindowQty(ls, j, end) ==
    IF j >= end THEN 0
    ELSE LET qty_line == StrippedLine(ls, j)
         IN  IF qty_match_pedido(qty_line) # NoMatch
             THEN PyInt(qty_match_pedido(qty_line).group)
             ELSE PedidoWindowQty(ls, j + 1, end)

NoDicts == [quantities |-> EmptyDict, descriptions |-> EmptyDict]

\* the quantity of the line recorded without the units per package
AddUnits_NoMultiplier(dicts, product_code, qty, description) ==
    IF qty > 0
    THEN IF product_code \in DOMAIN dicts.quantities
         THEN [dicts EXCEPT !.quantities[product_code] = @ + qty]
         ELSE [quantities |-> dicts.quantities @@ (product_code :> qty),
               descriptions |->
                   dicts.descriptions
                   @@ (product_code :> normalize_description(description))]
    ELSE dicts

\* lines 118-126 / 194-202
AddUnits(dicts, product_code, qty, description) ==
    IF qty > 0
    THEN LET total_units == qty * extract_units_from_description(description)
         IN  IF product_code \in DOMAIN dicts.quantities
             THEN [dicts EXCEPT !.quantities[product_code] = @ + total_units]
             ELSE [quantities |->
                       dicts.quantities @@ (product_code :> total_units),
                   descriptions |->
                       dicts.descriptions
                       @@ (product_code :> normalize_description(description))]
    ELSE dicts

\* NfLoopBody with a lookahead that passes over a quantity line of 0
NfLoopBody_SkipsZero(ls, k, dicts) ==
    IF code_match(StrippedLine(ls, k)) /\ k + 1 < Len(ls)
    THEN LET positive ==
                 {j \in (k + 2)..(NfWindowEnd(k, Len(ls)) - 1) :
                     /\ qty_match(StrippedLine(ls, j)) # NoMatch
                     /\ PyInt(qty_match(StrippedLine(ls, j)).group) > 0}
             qty == IF positive = {} THEN 0
                    ELSE PyInt(qty_match(StrippedLine(ls, MinOf(positive))).group)
         IN  AddUnits(dicts, StrippedLine(ls, k), qty, StrippedLine(ls, k + 1))
    ELSE dicts

\* one pass of the while loop of parse_nf_pdf at index k (lines 93-126)
NfLoopBody(ls, k, dicts) ==
    IF code_match(StrippedLine(ls, k)) /\ k + 1 < Len(ls)
    THEN AddUnits(dicts, StrippedLine(ls, k),
                  NfWindowQty(ls, k + 2, NfWindowEnd(k, Len(ls))),
                  StrippedLine(ls, k + 1))
    ELSE dicts

\* one pass of the while loop of parse_pedido_pdf at index k (lines 158-202)
PedidoLoopBody(ls, k, dicts) ==
    IF /\ item_match(StrippedLine(ls, k))
       /\ k + 1 < Len(ls)
       /\ code_match(StrippedLine(ls, k + 1))
       /\ k + 2 < Len(ls)
    THEN AddUnits(dicts, StrippedLine(ls, k + 1),
                  PedidoWindowQty(ls, k + 3, PedidoWindowEnd(k, Len(ls))),
                  StrippedLine(ls, k + 2))
    ELSE dicts

RECURSIVE NfLoop(_, _, _)
NfLoop(ls, k, dicts) ==
    IF k < Len(ls) THEN NfLoop(ls, k + 1, NfLoopBody(ls, k, dicts)) ELSE dicts

RECURSIVE PedidoLoop(_, _, _)
PedidoLoop(ls, k, dicts) ==
    IF k < Len(ls) THEN PedidoLoop(ls, k + 1, PedidoLoopBody(ls, k, dicts))
    ELSE dicts

\* lines 83-89: a document whose bytes fitz opens, with the lines of its text
Pdf(ls) == [opens |-> TRUE, text |-> ls]

\* bytes that fitz.open rejects (line 83 raises); text is what the bytes
\* read as plain text, <<>> for empty bytes
NotPdf(ls) == [opens |-> FALSE, text |-> ls]

\* the parser without the try block, reading the bytes as text
parse_nf_pdf_ReadsAnyway(pdf_content) == NfLoop(pdf_content.text, 0, NoDicts)

parse_nf_pdf(pdf_content) ==
    IF pdf_content.opens
    THEN NfLoop(pdf_content.text, 0, NoDicts)
    ELSE NoDicts

parse_pedido_pdf(pdf_content) ==
    IF pdf_content.opens
    THEN PedidoLoop(pdf_content.text, 0, NoDicts)
    ELSE NoDicts

----------------------------------------------------------------------------
(* Documents: up to MaxItems item blocks and MaxLines lines.  An invoice   *)
(* block is a product-code line, a description line, other columns and at  *)
(* most one quantity line; an order block starts with an item-marker line. *)

MaxItems == 2

MaxLines == 12

TCode1 == <<"1", "2", "3", "4", "5", "6", "7">>

TCode2 == <<"2", "3", "4", "5", "6", "7", "8">>

DocCodes == {TCode1, TCode2}

TDescPlain == <<"A">>

TDescPacked == <<"B", " ", "5", "G", "X", "2", "U", "N">>

DocDescriptions == {TDescPlain, TDescPacked}

TMarker == <<"1", "0">>

\* the unit column of a product line
TColumn == <<"U", "N">>

TQty2 == <<"2", ",", "0", "0", "0">>

TQty0 == <<"0", ",", "0", "0", "0">>

Columns(n) == [k \in 1..n |-> TColumn]

\* a number that is no multiple of 10
TNoMarker == <<"1", "5">>

\* the first lines of an item block: a product code and its description,
\* after an item marker in an order; a "loose" order has blocks without a
\* marker, with a number that is no marker, or with a marker and no code
Heads(format) ==
    IF format = "loose"
    THEN {<<TCode1, TDescPlain>>, <<TNoMarker, TCode1, TDescPlain>>,
          <<TMarker, TDescPlain>>, <<TMarker, TCode1, TDescPlain>>}
    ELSE {(IF format = "nf" THEN <<>> ELSE <<TMarker>>) \o <<c, d>> :
              c \in DocCodes, d \in DocDescriptions}

\* the item blocks of at most n lines of a format
Blocks(format, n) ==
    LET all == Heads(format)
               \cup {h \o Columns(g) \o <<q>> :
                         h \in Heads(format), g \in 0..n, q \in {TQty2, TQty0}}
    IN  {b \in all : Len(b) <= n}

\* the documents of at most `items` blocks and n lines
RECURSIVE Documents(_, _, _)
Documents(format, items, n) ==
    IF items = 0 THEN {<<>>}
    ELSE Documents(format, items - 1, n)
         \cup UNION {{b \o d : d \in Documents(format, items - 1, n - Len(b))} :
                        b \in Blocks(format, n)}

InitParse ==
    /\ \E format \in {"nf", "pedido", "loose"} :
          /\ pc = (IF format = "nf" THEN "nf" ELSE "pedido")
          /\ lines \in Documents(format, MaxItems, MaxLines)
    /\ line_no = 0
    /\ quantities = EmptyDict
    /\ descriptions = EmptyDict
    /\ weekly_df = NoFrame
    /\ inventory_df = <<>>
    /\ mazza_report = NoReport
    /\ result_df = NoFrame
    /\ df_output = NoFrame
    /\ store_code = NoneCell
    /\ store_name = NoneCell
    /\ given_df = NoFrame
    /\ mazza_i = 0
    /\ existing_codes = {}
    /\ NoPdfs
    /\ NoText

ParserDicts == [quantities |-> quantities, descriptions |-> descriptions]

compare_vars ==
    <<weekly_df, inventory_df, mazza_report, result_df, df_output, store_code,
      store_name, given_df,
      mazza_i, existing_codes>>

\* parse_nf_pdf: one pass of the loop, then i += 1
NfLine ==
    /\ pc = "nf"
    /\ line_no < Len(lines)
    /\ LET dicts == NfLoopBody(lines, line_no, ParserDicts)
       IN  /\ quantities' = dicts.quantities
           /\ descriptions' = dicts.descriptions
    /\ line_no' = line_no + 1
    /\ UNCHANGED <<pc, lines, compare_vars, pdfs_vars, text_vars>>

\* parse_nf_pdf: the loop ends and the dicts are returned
NfReturn ==
    /\ pc = "nf"
    /\ line_no >= Len(lines)
    /\ pc' = "nf_returned"
    /\ UNCHANGED <<parser_vars, compare_vars, pdfs_vars, text_vars>>

\* parse_pedido_pdf: one pass of the loop, then i += 1
PedidoLine ==
    /\ pc = "pedido"
    /\ line_no < Len(lines)
    /\ LET dicts == PedidoLoopBody(lines, line_no, ParserDicts)
       IN  /\ quantities' = dicts.quantities
           /\ descriptions' = dicts.descriptions
    /\ line_no' = line_no + 1
    /\ UNCHANGED <<pc, lines, compare_vars, pdfs_vars, text_vars>>

\* parse_pedido_pdf: the loop ends and the dicts are returned
PedidoReturn ==
    /\ pc = "pedido"
    /\ line_no >= Len(lines)
    /\ pc' = "pedido_returned"
    /\ UNCHANGED <<parser_vars, compare_vars, pdfs_vars, text_vars>>

NextParse == NfLine \/ NfReturn \/ PedidoLine \/ PedidoReturn

SpecParse == InitParse /\ [][NextParse]_vars

----------------------------------------------------------------------------
(* Properties of the parsers *)

\* a quantity token: an integer, a comma or a dot, and three zeros
QuantityToken(l) ==
    \E n \in 1..(Len(l) - 4) :
        /\ Len(l) = n + 4
        /\ \A k \in 1..n : l[k] \in Digits
        /\ l[n + 1] \in {",", "."}
        /\ \A k \in (n + 2)..(n + 4) : l[k] = "0"

\* line j of the document, counted from 0, holds a quantity token
TokenOn(j) == j < Len(lines) /\ QuantityToken(StrippedLine(lines, j))

\* line j of the document is a product code
CodeOn(j) == j < Len(lines) /\ code_match(StrippedLine(lines, j))

\* line j of the document is an item marker
MarkerOn(j) == j < Len(lines) /\ item_match(StrippedLine(lines, j))

\* the invoice parser stands on a product code whose window holds no token
NfOccurrenceWithoutToken ==
    /\ pc = "nf"
    /\ CodeOn(line_no)
    /\ \A j \in (line_no + 2)..(line_no + 9) : ~TokenOn(j)

\* the order parser stands on an item marker followed by a product code
\* whose window holds no token
PedidoOccurrenceWithoutToken ==
    /\ pc = "pedido"
    /\ MarkerOn(line_no)
    /\ CodeOn(line_no + 1)
    /\ \A j \in (line_no + 3)..(line_no + 7) : ~TokenOn(j)

\* the first quantity token on lines lo..hi exists and its integer is not 0
FirstTokenPositive(lo, hi) ==
    /\ \E j \in lo..hi : TokenOn(j)
    /\ LET l == StrippedLine(lines, MinOf({j \in lo..hi : TokenOn(j)}))
       IN  \E k \in 1..(Len(l) - 4) : l[k] # "0"

\* C5: the invoice window of a product code on line i is lines i+2..i+9 and
\* the order window of an item marker on line i is lines i+3..i+7: an
\* occurrence whose window holds no quantity token adds nothing to the
\* quantity map or the description map, whatever stands on line i+10
\* (invoice) or i+8 (order), and an occurrence whose window's first token
\* is positive is recorded
C5_WindowBoundary ==
    [][/\ (NfOccurrenceWithoutToken \/ PedidoOccurrenceWithoutToken)
            => quantities' = quantities /\ descriptions' = descriptions
       /\ (pc = "nf" /\ CodeOn(line_no)
              /\ FirstTokenPositive(line_no + 2, line_no + 9))
            => StrippedLine(lines, line_no) \in DOMAIN quantities'
       /\ (pc = "pedido" /\ MarkerOn(line_no) /\ CodeOn(line_no + 1)
              /\ FirstTokenPositive(line_no + 3, line_no + 7))
            => StrippedLine(lines, line_no + 1) \in DOMAIN quantities'
      ]_vars

\* the invoice parser has passed a product code on line 0 whose only
\* quantity token stands on line 10, and recorded nothing
C5_Witness ==
    /\ pc = "nf"
    /\ line_no = 1
    /\ CodeOn(0)
    /\ TokenOn(10)
    /\ \A j \in 2..9 : ~TokenOn(j)
    /\ quantities = EmptyDict
    /\ descriptions = EmptyDict

\* the same for the order parser: marker on line 0, token on line 8
C5_WitnessPedido ==
    /\ pc = "pedido"
    /\ line_no = 1
    /\ MarkerOn(0)
    /\ CodeOn(1)
    /\ TokenOn(8)
    /\ \A j \in 3..7 : ~TokenOn(j)
    /\ quantities = EmptyDict
    /\ descriptions = EmptyDict

----------------------------------------------------------------------------
(* TransformationService._process_pdfs *)

\* a total that a later document does not add to
AddQuantities_KeepFirst(totals, qs) ==
    [c \in DOMAIN totals \cup DOMAIN qs |->
        IF c \in DOMAIN totals THEN totals[c] ELSE qs[c]]

\* lines 64-67 / 75-78 over the items of one document's quantities
AddQuantities(totals, qs) ==
    [c \in DOMAIN totals \cup DOMAIN qs |->
        IF c \notin DOMAIN qs THEN totals[c]
        ELSE IF c \in DOMAIN totals THEN totals[c] + qs[c]
        ELSE qs[c]]

\* a description that every later document overwrites
AddDescriptions_LastWins(totals, qs, ds) ==
    [c \in DOMAIN totals \cup (DOMAIN qs \cap DOMAIN ds) |->
        IF c \in DOMAIN qs \cap DOMAIN ds THEN ds[c] ELSE totals[c]]

\* lines 68-69 / 79-80 over the items of one document's quantities
AddDescriptions(totals, qs, ds) ==
    [c \in DOMAIN totals \cup (DOMAIN qs \cap DOMAIN ds) |->
        IF c \in DOMAIN totals THEN totals[c] ELSE ds[c]]

\* the body of either `for pdf_content in ...` loop, given the parser's result
AddDocument(totals, result) ==
    [quantities |-> AddQuantities(totals.quantities, result.quantities),
     descriptions |-> AddDescriptions(totals.descriptions, result.quantities,
                                      result.descriptions)]

RECURSIVE NfPdfsLoop(_, _)
NfPdfsLoop(pdfs, totals) ==
    IF pdfs = <<>> THEN totals
    ELSE NfPdfsLoop(Tail(pdfs), AddDocument(totals, parse_nf_pdf(Head(pdfs))))

RECURSIVE PedidoPdfsLoop(_, _)
PedidoPdfsLoop(pdfs, totals) ==
    IF pdfs = <<>> THEN totals
    ELSE PedidoPdfsLoop(Tail(pdfs),
                        AddDocument(totals, parse_pedido_pdf(Head(pdfs))))

ProcessPdfs(nf, pedido) == PedidoPdfsLoop(pedido, NfPdfsLoop(nf, NoDicts))

----------------------------------------------------------------------------
(* Calls of _process_pdfs with up to MaxPdfs documents of each format *)

MaxPdfs == 2

\* three documents of a format: code 1 twice with different descriptions and
\* quantities, and a document with both codes
PdfCatalog(format) ==
    LET head == IF format = "nf" THEN <<>> ELSE <<TMarker>>
    IN  {Pdf(head \o <<TCode1, TDescPlain, TQty2>>),
         Pdf(head \o <<TCode1, TDescPacked, TColumn, TQty2>>),
         Pdf(head \o <<TCode2, TDescPlain, TQty2>>
                  \o head \o <<TCode1, TDescPacked, TQty2>>)}

InitPdfs ==
    /\ pc = "process_pdfs"
    /\ nf_pdfs \in SeqsUpTo(PdfCatalog("nf"), MaxPdfs)
    /\ pedido_pdfs \in SeqsUpTo(PdfCatalog("pedido"), MaxPdfs)
    /\ all_quantities = EmptyDict
    /\ all_descriptions = EmptyDict
    /\ weekly_df = NoFrame
    /\ inventory_df = <<>>
    /\ mazza_report = NoReport
    /\ result_df = NoFrame
    /\ df_output = NoFrame
    /\ store_code = NoneCell
    /\ store_name = NoneCell
    /\ given_df = NoFrame
    /\ mazza_i = 0
    /\ existing_codes = {}
    /\ NoParse
    /\ NoText

\* a call of _process_pdfs(nf_pdfs, pedido_pdfs)
ProcessPdfsStep ==
    /\ pc = "process_pdfs"
    /\ LET returned == ProcessPdfs(nf_pdfs, pedido_pdfs)
       IN  /\ all_quantities' = returned.quantities
           /\ all_descriptions' = returned.descriptions
    /\ pc' = "pdfs_processed"
    /\ UNCHANGED <<nf_pdfs, pedido_pdfs, compare_vars, parser_vars,
                   text_vars>>

NextPdfs == ProcessPdfsStep

SpecPdfs == InitPdfs /\ [][NextPdfs]_vars

----------------------------------------------------------------------------
(* Properties of _process_pdfs *)

\* the documents of a list in the order p
Permuted(pdfs, p) == [k \in 1..Len(pdfs) |-> pdfs[p[k]]]

\* the parser results in processing order: invoice lists first
ResultsInOrder ==
    [k \in 1..Len(nf_pdfs) |-> parse_nf_pdf(nf_pdfs[k])]
    \o [k \in 1..Len(pedido_pdfs) |-> parse_pedido_pdf(pedido_pdfs[k])]

\* the quantity a parser result holds for a code, 0 when it has none
QuantityIn(result, c) ==
    IF c \in DOMAIN result.quantities THEN result.quantities[c] ELSE 0

RECURSIVE SumOfQuantities(_, _)
SumOfQuantities(results, c) ==
    IF results = <<>> THEN 0
    ELSE QuantityIn(Head(results), c) + SumOfQuantities(Tail(results), c)

\* C3: for every permutation of the invoice documents and of the order
\* documents _process_pdfs returns the same quantity map, and the quantity of
\* each code is the sum of its quantities over all documents of both formats
C3_AggregationCommutes ==
    pc = "pdfs_processed" =>
        LET results == ResultsInOrder
        IN  /\ \A pn \in Permutations(1..Len(nf_pdfs)) :
                 \A pp \in Permutations(1..Len(pedido_pdfs)) :
                    ProcessPdfs(Permuted(nf_pdfs, pn),
                                Permuted(pedido_pdfs, pp)).quantities
                        = all_quantities
            /\ DOMAIN all_quantities =
                   UNION {DOMAIN results[k].quantities : k \in 1..Len(results)}
            /\ \A c \in DOMAIN all_quantities :
                   all_quantities[c] = SumOfQuantities(results, c)

\* two different invoice documents and an order document report code 1 with
\* 2, 4 and 4 units, and the call returned 10
C3_Witness ==
    /\ pc = "pdfs_processed"
    /\ Len(nf_pdfs) = 2
    /\ Len(pedido_pdfs) = 1
    /\ QuantityIn(parse_nf_pdf(nf_pdfs[1]), TCode1) = 2
    /\ QuantityIn(parse_nf_pdf(nf_pdfs[2]), TCode1) = 4
    /\ QuantityIn(parse_pedido_pdf(pedido_pdfs[1]), TCode1) = 4
    /\ all_quantities[TCode1] = 10

\* the first of the results that contains the code
FirstResultWith(results, c) ==
    results[MinOf({k \in 1..Len(results) : c \in DOMAIN results[k].quantities})]

\* the results of two documents introduce a code with different descriptions
TwoIntroduce(results, c) ==
    /\ Len(results) = 2
    /\ c \in DOMAIN results[1].descriptions
    /\ c \in DOMAIN results[2].descriptions
    /\ results[1].descriptions[c] # results[2].descriptions[c]

\* C4: the description kept for a code is the one of the first document, in
\* processing order (invoice documents, then order documents), whose result
\* contains the code; with two documents D1, D2 of one format introducing the
\* code with different descriptions, [D1, D2] keeps D1's and [D2, D1] keeps
\* D2's
C4_DescriptionFirstWins ==
    pc = "pdfs_processed" =>
        LET results == ResultsInOrder
        IN  /\ \A c \in DOMAIN all_quantities :
                   /\ c \in DOMAIN all_descriptions
                   /\ all_descriptions[c]
                          = FirstResultWith(results, c).descriptions[c]
            /\ \A c \in DocCodes :
                   (TwoIntroduce(results, c) /\ Len(nf_pdfs) = 2) =>
                       /\ all_descriptions[c] = results[1].descriptions[c]
                       /\ ProcessPdfs(<<nf_pdfs[2], nf_pdfs[1]>>,
                                      <<>>).descriptions[c]
                              = results[2].descriptions[c]
            /\ \A c \in DocCodes :
                   (TwoIntroduce(results, c) /\ Len(pedido_pdfs) = 2) =>
                       /\ all_descriptions[c] = results[1].descriptions[c]
                       /\ ProcessPdfs(<<>>, <<pedido_pdfs[2],
                                              pedido_pdfs[1]>>).descriptions[c]
                              = results[2].descriptions[c]

\* two invoice documents introduce code 1 as "A" and as "B", in this order,
\* and the call kept "A"
C4_Witness ==
    /\ pc = "pdfs_processed"
    /\ Len(nf_pdfs) = 2
    /\ TwoIntroduce(ResultsInOrder, TCode1)
    /\ ResultsInOrder[1].descriptions[TCode1] = <<"A">>
    /\ ResultsInOrder[2].descriptions[TCode1] = <<"B">>
    /\ all_descriptions[TCode1] = <<"A">>

----------------------------------------------------------------------------
(* Store code of the merged records *)

\* C12: after _compare_and_merge every record of the result (a base record
\* found in the inventory, a base record absent from it, or a record injected
\* from it) carries the store code of the inventory dataset's first row.
C12_SameStoreCode ==
    (pc = "merged" /\ Len(inventory_df) > 0) =>
        \A j \in 1..Len(result_df.rows) :
            result_df.rows[j].CodLoja = inventory_df[1].CodLoja

----------------------------------------------------------------------------
(* Units recorded by the invoice parser *)

\* the integer of the first quantity token on lines lo..hi, 0 without one
FirstTokenInteger(lo, hi) ==
    IF \E j \in lo..hi : TokenOn(j)
    THEN LET l == StrippedLine(lines, MinOf({j \in lo..hi : TokenOn(j)}))
         IN  PyInt(SubSeq(l, 1, Len(l) - 4))
    ELSE 0

\* quantity integer x unit multiplier of the occurrence of code c on line k,
\* 0 when line k is no occurrence of c
NfOccurrenceUnits(c, k) ==
    IF CodeOn(k) /\ StrippedLine(lines, k) = c /\ k + 1 < Len(lines)
    THEN FirstTokenInteger(k + 2, k + 9)
         * extract_units_from_description(StrippedLine(lines, k + 1))
    ELSE 0

RECURSIVE NfUnitsFrom(_, _)
NfUnitsFrom(c, k) ==
    IF k >= Len(lines) THEN 0
    ELSE NfOccurrenceUnits(c, k) + NfUnitsFrom(c, k + 1)

\* C13: the units the invoice parser returns for a code are the sum, over
\* the occurrences of the code with a quantity token in their window, of the
\* quantity integer times the unit multiplier of the occurrence's own
\* description line; a code with no such occurrence is not recorded
C13_NfUnitsAreSumOfOccurrences ==
    pc = "nf_returned" =>
        /\ \A c \in DOMAIN quantities : quantities[c] = NfUnitsFrom(c, 0)
        /\ \A c \in DocCodes : c \notin DOMAIN quantities => NfUnitsFrom(c, 0) = 0

\* code 1 occurs with a plain description (multiplier 1) and with a packed
\* one (multiplier 2), each with quantity 2, and 6 units are returned
C13_Witness ==
    /\ pc = "nf_returned"
    /\ \E k, n \in 0..(Len(lines) - 1) :
        /\ k # n
        /\ NfOccurrenceUnits(TCode1, k) = 2
        /\ NfOccurrenceUnits(TCode1, n) = 4
    /\ TCode1 \in DOMAIN quantities
    /\ quantities[TCode1] = 6

----------------------------------------------------------------------------
(* Triggering context of the order parser *)

\* an item marker: a number of 2 or 3 digits divisible by 10
ItemMarker(l) ==
    /\ Len(l) \in {2, 3}
    /\ \A k \in 1..Len(l) : l[k] \in Digits
    /\ l[Len(l)] = "0"

\* line j of the document is an item marker and line j+1 a product code
MarkedCodeOn(j) ==
    /\ j >= 0
    /\ j + 1 < Len(lines)
    /\ ItemMarker(StrippedLine(lines, j))
    /\ CodeOn(j + 1)

\* the codes whose quantity or description differs between two dict pairs
ChangedCodes(qs, ds, qs2, ds2) ==
    {c \in DOMAIN qs2 : c \notin DOMAIN qs \/ qs2[c] # qs[c]}
    \cup {c \in DOMAIN ds2 : c \notin DOMAIN ds \/ ds2[c] # ds[c]}

\* C14: in the order parser a product code contributes only from the line
\* after an item marker (a number of 2 or 3 digits divisible by 10): a pass
\* of the loop changes the maps only when it stands on a marker followed by
\* a product code, and then only for that code; a marker whose next line is
\* no product code is passed over, and the parser moves on
C14_OrderCodeNeedsMarker ==
    [][pc = "pedido" /\ line_no < Len(lines) =>
          /\ ChangedCodes(quantities, descriptions, quantities', descriptions')
                 \subseteq (IF MarkedCodeOn(line_no)
                            THEN {StrippedLine(lines, line_no + 1)}
                            ELSE {})
          /\ DOMAIN quantities \subseteq DOMAIN quantities'
          /\ line_no' = line_no + 1
          /\ pc' = "pedido"
      ]_vars

\* the order parser returned nothing for a document with a marker followed
\* by no product code and with a product code that follows no marker and
\* has a positive quantity token two lines later
C14_Witness ==
    /\ pc = "pedido_returned"
    /\ \E k \in 0..(Len(lines) - 2) :
        ItemMarker(StrippedLine(lines, k)) /\ ~CodeOn(k + 1)
    /\ \E j \in 0..(Len(lines) - 1) :
        /\ CodeOn(j)
        /\ ~MarkedCodeOn(j - 1)
        /\ FirstTokenPositive(j + 2, j + 2)
    /\ quantities = EmptyDict
    /\ descriptions = EmptyDict

----------------------------------------------------------------------------
(* Calls of _process_pdfs with documents that fail to open *)

\* per format: two documents that open, empty bytes, and a text file with
\* the lines of an item that is no PDF
FailingCatalog(format) ==
    LET head == IF format = "nf" THEN <<>> ELSE <<TMarker>>
    IN  {Pdf(head \o <<TCode1, TDescPacked, TQty2>>),
         Pdf(head \o <<TCode2, TDescPlain, TQty2>>),
         NotPdf(<<>>),
         NotPdf(head \o <<TCode1, TDescPlain, TQty2>>)}

InitFailSoft ==
    /\ pc = "process_pdfs"
    /\ nf_pdfs \in SeqsUpTo(FailingCatalog("nf"), MaxPdfs)
    /\ pedido_pdfs \in SeqsUpTo(FailingCatalog("pedido"), MaxPdfs)
    /\ all_quantities = EmptyDict
    /\ all_descriptions = EmptyDict
    /\ weekly_df = NoFrame
    /\ inventory_df = <<>>
    /\ mazza_report = NoReport
    /\ result_df = NoFrame
    /\ df_output = NoFrame
    /\ store_code = NoneCell
    /\ store_name = NoneCell
    /\ given_df = NoFrame
    /\ mazza_i = 0
    /\ existing_codes = {}
    /\ NoParse
    /\ NoText

SpecFailSoft == InitFailSoft /\ [][NextPdfs]_vars

Opens(pdf_content) == pdf_content.opens

\* C15: both parsers return a pair of empty maps for a document that fails
\* to open, and _process_pdfs returns for a list of documents what it
\* returns for the list without the failing documents
C15_FailSoft ==
    pc = "pdfs_processed" =>
        /\ \A k \in 1..Len(nf_pdfs) :
             ~Opens(nf_pdfs[k]) => parse_nf_pdf(nf_pdfs[k]) = NoDicts
        /\ \A k \in 1..Len(pedido_pdfs) :
             ~Opens(pedido_pdfs[k]) => parse_pedido_pdf(pedido_pdfs[k]) = NoDicts
        /\ LET kept == ProcessPdfs(SelectSeq(nf_pdfs, Opens),
                                   SelectSeq(pedido_pdfs, Opens))
           IN  /\ all_quantities = kept.quantities
               /\ all_descriptions = kept.descriptions

\* a call with a failing invoice before one that opens and an order that
\* opens before a failing one returned the units of the two that open
C15_Witness ==
    /\ pc = "pdfs_processed"
    /\ Len(nf_pdfs) = 2 /\ Len(pedido_pdfs) = 2
    /\ ~Opens(nf_pdfs[1]) /\ nf_pdfs[1].text # <<>> /\ Opens(nf_pdfs[2])
    /\ Opens(pedido_pdfs[1]) /\ ~Opens(pedido_pdfs[2])
    /\ DOMAIN all_quantities = {TCode1, TCode2}

----------------------------------------------------------------------------
(* Calls of extract_units_from_description and normalize_description on    *)
(* descriptions made of up to MaxChunks chunks                             *)

MaxChunks == 3

\* packaging annotations of the four kinds, in upper and lower case, with a
\* zero count, and the pieces annotations are made of
DescriptionChunks ==
    {<<"3", "G", "X", "2", "U">>,
     <<"1", ",", "5", "k", "g", "x", "4", "u", "n">>,
     <<"X", "5", "U", "N">>,
     <<" ", "X", " ", "6">>,
     <<"7", "U", "N">>,
     <<"X", "0", "U", "N">>,
     <<" ", "X", " ", "0">>,
     <<"A">>,
     <<" ">>,
     <<"0">>,
     <<"X">>,
     <<"U", "N">>,
     <<"5", "G">>}

RECURSIVE ChunkTexts(_)
ChunkTexts(n) ==
    IF n = 0 THEN {<<>>}
    ELSE ChunkTexts(n - 1)
         \cup {c \o s : c \in DescriptionChunks, s \in ChunkTexts(n - 1)}

InitText ==
    /\ pc = "text"
    /\ raw_description \in ChunkTexts(MaxChunks) \cup {NoDescription}
    /\ units_returned = 1
    /\ desc_returned = <<>>
    /\ weekly_df = NoFrame
    /\ inventory_df = <<>>
    /\ mazza_report = NoReport
    /\ result_df = NoFrame
    /\ df_output = NoFrame
    /\ store_code = NoneCell
    /\ store_name = NoneCell
    /\ given_df = NoFrame
    /\ mazza_i = 0
    /\ existing_codes = {}
    /\ NoParse
    /\ NoPdfs

\* a call of extract_units_from_description(raw_description)
ExtractUnits ==
    /\ pc = "text"
    /\ units_returned' = extract_units_from_description(raw_description)
    /\ pc' = "units_extracted"
    /\ UNCHANGED <<raw_description, desc_returned, compare_vars, parser_vars,
                   pdfs_vars>>

\* a call of normalize_description(raw_description)
Normalize ==
    /\ pc = "text"
    /\ desc_returned' = normalize_description(raw_description)
    /\ pc' = "normalized"
    /\ UNCHANGED <<raw_description, units_returned, compare_vars, parser_vars,
                   pdfs_vars>>

\* a call of normalize_description on what the first call returned
NormalizeAgain ==
    /\ pc = "normalized"
    /\ desc_returned' = normalize_description(desc_returned)
    /\ pc' = "normalized_again"
    /\ UNCHANGED <<raw_description, units_returned, compare_vars, parser_vars,
                   pdfs_vars>>

NextText == ExtractUnits \/ Normalize \/ NormalizeAgain

SpecText == InitText /\ [][NextText]_vars

----------------------------------------------------------------------------
(* Properties of extract_units_from_description                            *)

\* C16: extract_units_from_description returns an integer that is at least
\* 1 for every description, also when the annotation has a zero count, and
\* 1 for an empty or absent description
C16_UnitsAtLeastOne ==
    pc = "units_extracted" =>
        /\ units_returned \in Nat
        /\ units_returned >= 1
        /\ raw_description \in {NoDescription, <<>>} => units_returned = 1


\* the letter c, in upper or lower case, is at index k of s
Letter(s, k, c) ==
    /\ k \in 1..Len(s)
    /\ \/ s[k] = c
       \/ \E n \in 1..26 : UpperChars[n] = c /\ LowerChars[n] = s[k]

\* the index after the longest run of characters of S that starts at a
RunStop(s, a, S) ==
    CHOOSE e \in a..(Len(s) + 1) :
        /\ \A k \in a..(e - 1) : s[k] \in S
        /\ e = Len(s) + 1 \/ s[e] \notin S

\* the index after X<digits> at index x, 0 when it is not there
AfterXCount(s, x) ==
    IF Letter(s, x, "X") /\ RunStop(s, x + 1, Digits) > x + 1
    THEN RunStop(s, x + 1, Digits)
    ELSE 0

\* the index after <weight>(G|KG) at index a, 0 when it is not there
AfterWeight(s, a) ==
    LET e == RunStop(s, a, Digits)
        f == IF /\ e < Len(s)
                /\ s[e] \in {",", "."}
                /\ RunStop(s, e + 1, Digits) > e + 1
             THEN RunStop(s, e + 1, Digits)
             ELSE e
    IN  IF e = a THEN 0
        ELSE IF Letter(s, f, "G") THEN f + 1
        ELSE IF Letter(s, f, "K") /\ Letter(s, f + 1, "G") THEN f + 2
        ELSE 0

\* the unit digits of <weight>(G|KG)X<units>U(N)? at index a, <<>> when
\* the pattern is not at a
WeightUnitsDigits(s, a) ==
    LET g == AfterWeight(s, a)
        d == AfterXCount(s, g)
    IN  IF g > 0 /\ d > 0 /\ Letter(s, d, "U")
        THEN SubSeq(s, g + 1, d - 1) ELSE <<>>

\* the unit digits of X<units>UN at index a
XUnitsDigits(s, a) ==
    LET d == AfterXCount(s, a)
    IN  IF d > 0 /\ Letter(s, d, "U") /\ Letter(s, d + 1, "N")
        THEN SubSeq(s, a + 1, d - 1) ELSE <<>>

\* the unit digits of a trailing " X <units>" that starts at index a
TrailingXDigits(s, a) ==
    LET w == RunStop(s, a, Whitespace)
        x == RunStop(s, w + 1, Whitespace)
        d == RunStop(s, x, Digits)
    IN  IF /\ w > a
           /\ Letter(s, w, "X")
           /\ x > w + 1
           /\ d > x
           /\ RunStop(s, d, Whitespace) = Len(s) + 1
        THEN SubSeq(s, x, d - 1) ELSE <<>>

\* the unit digits of <units>UN at index a
UnitsDigits(s, a) ==
    LET d == RunStop(s, a, Digits)
    IN  IF d > a /\ Letter(s, d, "U") /\ Letter(s, d + 1, "N")
        THEN SubSeq(s, a, d - 1) ELSE <<>>

\* the least index of a set of indexes
FirstOf(A) == CHOOSE a \in A : \A b \in A : a <= b

\* the unit count of the first place where each pattern is found, -1 when
\* the pattern is nowhere in s
Count1(s) ==
    LET A == {a \in 1..Len(s) : WeightUnitsDigits(s, a) # <<>>}
    IN  IF A = {} THEN -1 ELSE PyInt(WeightUnitsDigits(s, FirstOf(A)))

Count2(s) ==
    LET A == {a \in 1..Len(s) : XUnitsDigits(s, a) # <<>>}
    IN  IF A = {} THEN -1 ELSE PyInt(XUnitsDigits(s, FirstOf(A)))

Count3(s) ==
    LET A == {a \in 1..Len(s) : TrailingXDigits(s, a) # <<>>}
    IN  IF A = {} THEN -1 ELSE PyInt(TrailingXDigits(s, FirstOf(A)))

Count4(s) ==
    LET A == {a \in 1..Len(s) : UnitsDigits(s, a) # <<>>}
    IN  IF A = {} THEN -1 ELSE PyInt(UnitsDigits(s, FirstOf(A)))

\* C17: extract_units_from_description returns the unit count of the first
\* of the four patterns, in the order weight-and-units, X<units>UN, trailing
\* "X <units>", <units>UN, that is found in the description in upper or
\* lower case, and 1 when none is found
C17_PriorityOrder ==
    (pc = "units_extracted" /\ raw_description # NoDescription) =>
        LET c1 == Count1(raw_description)
            c2 == Count2(raw_description)
            c3 == Count3(raw_description)
            c4 == Count4(raw_description)
        IN  units_returned = IF c1 >= 0 THEN c1
                             ELSE IF c2 >= 0 THEN c2
                             ELSE IF c3 >= 0 THEN c3
                             ELSE IF c4 >= 0 THEN c4
                             ELSE 1

\* a description in lower and upper case where the first, the third and the
\* fourth pattern give three different counts, and the call returned the
\* count of the first
C17_Witness ==
    /\ pc = "units_extracted"
    /\ raw_description # NoDescription
    /\ \E k \in 1..Len(raw_description) : raw_description[k] = "x"
    /\ LET c1 == Count1(raw_description)
           c3 == Count3(raw_description)
           c4 == Count4(raw_description)
       IN  /\ c1 >= 0 /\ c3 >= 0 /\ c4 >= 0
           /\ c1 # c3 /\ c1 # c4 /\ c3 # c4
           /\ units_returned = c1

\* the second pattern is found, the first is not, and the third and the
\* fourth give other counts
C17_WitnessSecond ==
    /\ pc = "units_extracted"
    /\ raw_description # NoDescription
    /\ LET c1 == Count1(raw_description)
           c2 == Count2(raw_description)
           c3 == Count3(raw_description)
           c4 == Count4(raw_description)
       IN  /\ c1 < 0 /\ c2 >= 0 /\ c3 >= 0 /\ c4 >= 0
           /\ c2 # c3 /\ c2 # c4
           /\ units_returned = c2

----------------------------------------------------------------------------
(* Properties of normalize_description                                     *)

\* normalize_description finds one of its two patterns in s
Annotated(s) ==
    \/ SearchTrailingX(s, 1) # NoMatch
    \/ \E p \in 1..Len(s) : PackagingAt(s, p) # NoMatch

\* C18: normalize_description is idempotent on strings with no packaging
\* annotation: a second call on what the first call returned for such a
\* string returns the same string
C18_NormalizeIdempotent ==
    [][(pc = "normalized" /\ ~Annotated(raw_description)) =>
           desc_returned' = desc_returned]_vars

\* a description with two spaces in a row and a weight in lower case, which
\* is no annotation to normalize_description, was normalized twice; the
\* result differs from the description and a third call returns it again
C18_Witness ==
    /\ pc = "normalized_again"
    /\ raw_description # NoDescription
    /\ ~Annotated(raw_description)
    /\ Count1(raw_description) >= 0
    /\ \E k \in 1..(Len(raw_description) - 1) :
        raw_description[k] = " " /\ raw_description[k + 1] = " "
    /\ desc_returned # raw_description
    /\ desc_returned # <<>>
    /\ normalize_description(desc_returned) = desc_returned

----------------------------------------------------------------------------
(* compare with an empty inventory *)

\* the records of a frame are the weekly records, one for one, with Estoque 0
WeeklyRecordsWithoutStock(rows) ==
    /\ Len(rows) = Len(weekly_df.rows)
    /\ \A k \in 1..Len(rows) :
        /\ rows[k].Estoque = Num(0)
        /\ \E j \in 1..Len(weekly_df.rows) :
            rows[k].Codigo = weekly_df.rows[j].Codigo

\* C19: with an empty inventory compare runs to its end with store code
\* None and store name "Unknown"; every record of the weekly report ends
\* with Estoque 0, no record is added, and the ranking report is not merged
\* even when one is given
C19_EmptyInventory ==
    Len(inventory_df) = 0 =>
        /\ pc # "mazza_loop"
        /\ pc \in {"merged", "sort", "sorted", "reorder", "done"} =>
               WeeklyRecordsWithoutStock(result_df.rows)
        /\ pc \in {"sorted", "reorder", "done"} =>
               /\ store_code = NoneCell
               /\ WeeklyRecordsWithoutStock(df_output.rows)
               /\ ~HasCol(df_output.cols, "SaidasVD")
               /\ ~HasCol(df_output.cols, "SaidasTotal")
        /\ pc # "compare" => store_name = StrCell("Unknown")

\* compare ended for an empty inventory, two weekly records that came with
\* Estoque 100 and a ranking report with an entry
C19_Witness ==
    /\ pc = "done"
    /\ Len(inventory_df) = 0
    /\ Len(weekly_df.rows) = 2
    /\ \A j \in 1..2 : weekly_df.rows[j].Estoque = Num(100)
    /\ mazza_report.given
    /\ Len(mazza_report.rows) > 0
    /\ \A k \in 1..Len(df_output.rows) : df_output.rows[k].Estoque = Num(0)
    /\ store_code = NoneCell
    /\ store_name = StrCell("Unknown")

----------------------------------------------------------------------------
(* TransformationService._create_final_report.  Product codes are texts    *)
(* here, as the keys of the dicts of _process_pdfs are.                    *)

SourceCols ==
    <<"Codigo", "Descricao", "Grupo", "Estoque", "QuantidadeLiquida">>

\* a row of the frame _read_source_excel returns; the columns the frame
\* does not have yet are held at their missing value
SourceRow(code, desc, grupo, estoque, qtd) ==
    [Codigo |-> code, Descricao |-> desc, Grupo |-> grupo,
     Estoque |-> estoque, QuantidadeLiquida |-> qtd,
     Pedido |-> NaN, Total |-> NaN, Sugestao |-> NaN]

TProduto == <<"P", "r", "o", "d", "u", "t", "o", " ">>

\* the row of such a code with the bare code as the description lacking
PdfProductRow_BareCode(code, pending_descriptions) ==
    SourceRow(code,
              IF code \in DOMAIN pending_descriptions
              THEN pending_descriptions[code]
              ELSE code,
              <<>>, Num(0), Num(0))

\* lines 99-109: the row of a code that only the documents have
PdfProductRow(code, pending_descriptions) ==
    SourceRow(code,
              IF code \in DOMAIN pending_descriptions
              THEN pending_descriptions[code]
              ELSE TProduto \o code,
              <<>>, Num(0), Num(0))

\* WithPending with the Total left at the Estoque alone
WithPending_TotalIsEstoque(df, pending_quantities) ==
    Frame(WithCol(WithCol(WithCol(df.cols, "Pedido"), "Total"), "Sugestao"),
          [k \in 1..Len(df.rows) |->
              LET r == df.rows[k]
                  pedido == IF r.Codigo \in DOMAIN pending_quantities
                            THEN Num(pending_quantities[r.Codigo])
                            ELSE NaN
              IN  [r EXCEPT !.Pedido = pedido,
                            !.Total = Num(Nz(r.Estoque)),
                            !.Sugestao = NaN]])

\* lines 113-117: the columns Pedido, Total and Sugestão assigned on df
WithPending(df, pending_quantities) ==
    Frame(WithCol(WithCol(WithCol(df.cols, "Pedido"), "Total"), "Sugestao"),
          [k \in 1..Len(df.rows) |->
              LET r == df.rows[k]
                  pedido == IF r.Codigo \in DOMAIN pending_quantities
                            THEN Num(pending_quantities[r.Codigo])
                            ELSE NaN
              IN  [r EXCEPT !.Pedido = pedido,
                            !.Total = Num(Nz(r.Estoque) + Nz(pedido)),
                            !.Sugestao = NaN]])

\* lines 120-143: the eight columns copied, Quantidade Líquida named Saídas
ReportRows(rows) ==
    [k \in 1..Len(rows) |->
        WeeklyRow(rows[k].Codigo, rows[k].Descricao, rows[k].Grupo,
                  rows[k].Estoque, rows[k].Pedido, rows[k].Total,
                  rows[k].QuantidadeLiquida)]

\* line 146: rows by Descrição ascending, a missing description last
RECURSIVE InsertByDescricao(_, _)
InsertByDescricao(r, sorted) ==
    IF sorted = <<>> THEN <<r>>
    ELSE IF \/ ~IsNaS(r.Descricao) /\ IsNaS(sorted[1].Descricao)
            \/ /\ ~IsNaS(r.Descricao) /\ ~IsNaS(sorted[1].Descricao)
               /\ TextLess(r.Descricao, sorted[1].Descricao)
         THEN <<r>> \o sorted
         ELSE <<sorted[1]>> \o InsertByDescricao(r, Tail(sorted))

RECURSIVE SortByDescricao(_)
SortByDescricao(rows) ==
    IF rows = <<>> THEN <<>>
    ELSE InsertByDescricao(rows[Len(rows)],
                           SortByDescricao(SubSeq(rows, 1, Len(rows) - 1)))

\* the orders in which `for code in new_codes` can visit a set
Orders(S) ==
    {o \in [1..Cardinality(S) -> S] : \A a, b \in DOMAIN o : o[a] = o[b] => a = b}

\* lines 85-148; new_order is the order in which the set new_codes is
\* visited.  returned is the frame the call returns, given the frame it was
\* called with after the call: pd.concat (line 110) binds df to a new frame,
\* without it the assignments of lines 113-117 write into the caller's frame
CreateFinalReport(df, pending_quantities, pending_descriptions, new_order) ==
    LET new_rows == [k \in 1..Len(new_order) |->
                        PdfProductRow(new_order[k], pending_descriptions)]
        local == IF new_order # <<>>
                 THEN Frame(df.cols, df.rows \o new_rows)
                 ELSE df
        full == WithPending(local, pending_quantities)
    IN  [returned |-> Frame(WeeklyCols, SortByDescricao(ReportRows(full.rows))),
         given |-> IF new_order # <<>> THEN df ELSE full]

----------------------------------------------------------------------------
(* Calls of _create_final_report *)

MaxSource == 2

TCode3 == <<"2", "0", "0", "0", "0", "0", "1">>

ReportCodes == DocCodes \cup {TCode3}

SourceRows ==
    {SourceRow(c, d, G1010Outros, e, Num(20)) :
        c \in DocCodes, d \in {<<"B">>, <<"E">>}, e \in {Num(0), Num(100)}}

\* what _process_pdfs can return: units per code, and a description for
\* some of the codes with units
PendingDicts ==
    UNION {UNION {{[quantities |-> q, descriptions |-> d] :
                      d \in UNION {[D -> {<<"A">>, <<"D">>}] : D \in SUBSET K}} :
                     q \in [K -> {3, 6}]} :
              K \in SUBSET ReportCodes}

InitReport ==
    /\ pc = "report"
    /\ given_df \in {Frame(SourceCols, rows) :
            rows \in {r \in SeqsUpTo(SourceRows, MaxSource) : UniqueCodes(r)}}
    /\ \E dicts \in PendingDicts :
          /\ all_quantities = dicts.quantities
          /\ all_descriptions = dicts.descriptions
    /\ nf_pdfs = <<>>
    /\ pedido_pdfs = <<>>
    /\ weekly_df = NoFrame
    /\ inventory_df = <<>>
    /\ mazza_report = NoReport
    /\ result_df = NoFrame
    /\ df_output = NoFrame
    /\ store_code = NoneCell
    /\ store_name = NoneCell
    /\ mazza_i = 0
    /\ existing_codes = {}
    /\ NoParse
    /\ NoText

\* process line 175: df_output = self._create_final_report(df, ...)
CreateFinalReportStep ==
    /\ pc = "report"
    /\ \E new_order \in Orders(DOMAIN all_quantities \ FrameCodes(given_df.rows)) :
          LET call == CreateFinalReport(given_df, all_quantities,
                                        all_descriptions, new_order)
          IN  /\ df_output' = call.returned
              /\ given_df' = call.given
    /\ pc' = "reported"
    /\ UNCHANGED <<weekly_df, inventory_df, mazza_report, result_df, store_code,
                   store_name, mazza_i, existing_codes>>
    /\ UNCHANGED <<parser_vars, pdfs_vars, text_vars>>

NextReport == CreateFinalReportStep

SpecReport == InitReport /\ [][NextReport]_vars

----------------------------------------------------------------------------
(* The frames given to the stages *)

\* C20: each of _create_final_report, _compare_and_merge, _apply_sorting and
\* _merge_mazza_report leaves the frame it is called with as it was: the
\* caller's frame has the same rows, columns and values after every step of
\* the stage
C20_StagesLeaveInput ==
    [][/\ pc = "report" => given_df' = given_df
       /\ pc = "merge" => weekly_df' = weekly_df /\ inventory_df' = inventory_df
       /\ pc = "sort" => result_df' = result_df
       /\ (pc = "sorted" /\ pc' = "mazza_loop") => given_df' = df_output
       /\ pc = "mazza_loop" => given_df' = given_df
      ]_vars

\* what the code does to the given frame: _compare_and_merge and
\* _apply_sorting work on a copy; _create_final_report leaves its frame as
\* it was when a code is new to it and writes three columns into it
\* otherwise; _merge_mazza_report writes two columns into its frame
GivenFrameAfterStage ==
    [][/\ (pc = "report"
           /\ DOMAIN all_quantities \subseteq FrameCodes(given_df.rows))
              => given_df' = WithPending(given_df, all_quantities)
       /\ (pc = "report"
           /\ ~(DOMAIN all_quantities \subseteq FrameCodes(given_df.rows)))
              => given_df' = given_df
       /\ pc = "merge" => weekly_df' = weekly_df /\ inventory_df' = inventory_df
       /\ pc = "sort" => result_df' = result_df
       /\ (pc = "sorted" /\ pc' = "mazza_loop")
              => /\ given_df' # df_output
                 /\ HasCol(given_df'.cols, "SaidasVD")
                 /\ HasCol(given_df'.cols, "SaidasTotal")
      ]_vars

----------------------------------------------------------------------------
(* Column order of the output of compare *)

\* a ranking report was given and the store is the designated store
RankingGiven == mazza_report.given /\ store_code = StrCell("1225")

\* C21: the columns of the output of compare are, in this order, store code,
\* product code, description, group, on-hand, pending, total, outbound,
\* then Saídas VD and Saídas Total exactly when the ranking report was
\* merged, then suggestion
C21_ColumnOrder ==
    pc = "done" =>
        df_output.cols =
            <<"CodLoja", "Codigo", "Descricao", "Grupo", "Estoque", "Pedido",
              "Total", "Saidas">>
            \o (IF RankingGiven THEN <<"SaidasVD", "SaidasTotal">> ELSE <<>>)
            \o <<"Sugestao">>

\* compare ended after a ranking merge that matched a record and added one
C21_Witness ==
    /\ pc = "done"
    /\ RankingGiven
    /\ Len(df_output.rows) > Len(result_df.rows)
    /\ \E k \in 1..Len(result_df.rows) : df_output.rows[k].SaidasVD # NaN
    /\ Len(df_output.cols) = 11

----------------------------------------------------------------------------
(* The Saídas column under the ranking merge *)

\* C22: in the ranking merge the quantity of an entry is added to Saídas
\* itself: a record with the entry's code gets its Saídas, a missing one
\* counted as 0, plus the quantity, and the record made from an entry with
\* a new code has the quantity as its Saídas
C22_RankingAddsToSaidas ==
    [][(pc = "mazza_loop" /\ mazza_i <= Len(mazza_report.rows)) =>
          LET entry == mazza_report.rows[mazza_i]
              rows == df_output.rows
              after == df_output'.rows
          IN  IF entry.CODIGO \in existing_codes
              THEN \A k \in 1..Len(rows) :
                      rows[k].Codigo = entry.CODIGO =>
                          after[k].Saidas
                              = PyAdd(Num(Nz(rows[k].Saidas)), entry.QUANTIDADE)
              ELSE after[Len(after)].Saidas = entry.QUANTIDADE
      ]_vars

----------------------------------------------------------------------------
(* Properties of _create_final_report *)

\* the codes with pending units that the source frame does not list
PdfOnlyCodes == DOMAIN all_quantities \ FrameCodes(given_df.rows)

\* C23: for every code with an aggregated pending quantity that the sales
\* rows lack, the report has exactly one record with that code; it has the
\* description captured from the documents, or "Produto <code>" when there
\* is none, an empty group, Estoque 0, Saídas 0, Pedido equal to the
\* aggregated quantity and Total equal to Pedido
C23_PdfOnlyProductAdded ==
    pc = "reported" =>
        \A c \in PdfOnlyCodes :
            /\ Cardinality({k \in 1..Len(df_output.rows) :
                               df_output.rows[k].Codigo = c}) = 1
            /\ \A k \in 1..Len(df_output.rows) :
                  df_output.rows[k].Codigo = c =>
                      /\ df_output.rows[k].Descricao =
                             (IF c \in DOMAIN all_descriptions
                              THEN all_descriptions[c]
                              ELSE <<"P", "r", "o", "d", "u", "t", "o", " ">> \o c)
                      /\ df_output.rows[k].Grupo = <<>>
                      /\ df_output.rows[k].Estoque = Num(0)
                      /\ df_output.rows[k].Saidas = Num(0)
                      /\ df_output.rows[k].Pedido = Num(all_quantities[c])
                      /\ df_output.rows[k].Total = Num(all_quantities[c])

\* a report for a sales row and two codes of the documents, one with a
\* captured description and one without
C23_Witness ==
    /\ pc = "reported"
    /\ Len(given_df.rows) = 1
    /\ \E c, d \in PdfOnlyCodes :
        /\ c # d
        /\ c \in DOMAIN all_descriptions
        /\ d \notin DOMAIN all_descriptions
    /\ Len(df_output.rows) = 3

----------------------------------------------------------------------------
(* Calls of _merge_mazza_report with the quantities _read_mazza_report     *)
(* returns: the column QUANTIDADE is passed on as the sheet holds it       *)

RankingBaseRows ==
    {[WeeklyRow(c, <<"B">>, G1010Outros, Num(100), NaN, Num(100), sd)
         EXCEPT !.CodLoja = DesignatedStore] :
        c \in {"1234567"}, sd \in {NaN, Num(20)}}

RawMazzaEntries ==
    {MazzaEntry(c, <<"C">>, q) :
        c \in MazzaCodes, q \in {Num(50), NaN, Unparseable}}

InitRanking ==
    /\ pc = "sorted"
    /\ df_output \in {Frame(MergedCols, rows) : rows \in SeqsUpTo(RankingBaseRows, 1)}
    /\ mazza_report \in {[given |-> TRUE, rows |-> r] :
                            r \in SeqsUpTo(RawMazzaEntries, MaxMazza)}
    /\ store_code = DesignatedStore
    /\ store_name = StrCell("Matriz")
    /\ weekly_df = NoFrame
    /\ inventory_df = <<>>
    /\ result_df = NoFrame
    /\ given_df = NoFrame
    /\ mazza_i = 0
    /\ existing_codes = {}
    /\ NoParse
    /\ NoPdfs
    /\ NoText

\* lines 198-199 raise and compare ends with the exception
MazzaRaise ==
    /\ pc = "mazza_loop"
    /\ mazza_i <= Len(mazza_report.rows)
    /\ MazzaRaises(df_output, mazza_report.rows[mazza_i], existing_codes)
    /\ pc' = "raised"
    /\ UNCHANGED <<weekly_df, inventory_df, mazza_report, result_df, df_output,
                   store_code, store_name, given_df, mazza_i, existing_codes>>
    /\ UNCHANGED <<parser_vars, pdfs_vars, text_vars>>

NextRanking ==
    \/ MazzaStart
    \/ MazzaRow
    \/ MazzaRaise
    \/ MazzaReorder
    \/ StoreColumnFirst

SpecRanking == InitRanking /\ [][NextRanking]_vars

\* the number a cell stands for when a missing or unparseable cell is 0
CellValue(x) == IF Len(x) = 1 THEN x[1] ELSE 0

\* C24: a missing or non-numeric cell of a numeric input column is treated
\* as 0 and raises no error.  For the ranking quantity: no step of the
\* merge raises, a record with the entry's code gets the entry's quantity,
\* 0 for a missing or unparseable one, added to its Saídas VD, and a new
\* record gets that quantity as its Saídas VD
C24_RankingQuantityCoerced ==
    [][(pc = "mazza_loop" /\ mazza_i <= Len(mazza_report.rows)) =>
          LET entry == mazza_report.rows[mazza_i]
              rows == df_output.rows
              after == df_output'.rows
          IN  /\ pc' # "raised"
              /\ IF entry.CODIGO \in existing_codes
                 THEN \A k \in 1..Len(rows) :
                         rows[k].Codigo = entry.CODIGO =>
                             after[k].SaidasVD =
                                 Num(CellValue(rows[k].SaidasVD)
                                     + CellValue(entry.QUANTIDADE))
                 ELSE after[Len(after)].SaidasVD
                          = Num(CellValue(entry.QUANTIDADE))
      ]_vars

\* the same with numeric quantities only: what the code does for them
RankingNumbersAdded ==
    [][(/\ pc = "mazza_loop" /\ mazza_i <= Len(mazza_report.rows)
        /\ \A k \in 1..Len(mazza_report.rows) :
              Len(mazza_report.rows[k].QUANTIDADE) = 1) =>
          LET entry == mazza_report.rows[mazza_i]
              rows == df_output.rows
              after == df_output'.rows
          IN  /\ pc' # "raised"
              /\ IF entry.CODIGO \in existing_codes
                 THEN \A k \in 1..Len(rows) :
                         rows[k].Codigo = entry.CODIGO =>
                             after[k].SaidasVD =
                                 Num(CellValue(rows[k].SaidasVD)
                                     + CellValue(entry.QUANTIDADE))
                 ELSE after[Len(after)].SaidasVD
                          = Num(CellValue(entry.QUANTIDADE))
      ]_vars

\* a step of the merge raised
RankingRaised == pc = "raised"

\* a record holds a missing Saídas VD after an entry with its code
RankingLeftMissing ==
    /\ pc = "done"
    /\ \E k \in 1..Len(df_output.rows) :
        /\ df_output.rows[k].SaidasVD = NaN
        /\ \E j \in 1..Len(mazza_report.rows) :
            mazza_report.rows[j].CODIGO = df_output.rows[k].Codigo

----------------------------------------------------------------------------
(* Calls of _create_final_report and calls of _compare_and_merge           *)

InitTotals == InitReport \/ InitMerge

NextTotals ==
    \/ CreateFinalReportStep
    \/ CompareAndMergeStep

SpecTotals == InitTotals /\ [][NextTotals]_vars

\* Total = Estoque + Pedido, a missing Pedido counted as 0
TotalIdentity(row) == row.Total = PyAdd(row.Estoque, Num(Nz(row.Pedido)))

\* C25: every record _create_final_report produces has Total = Estoque +
\* Pedido with a missing Pedido counted as 0, and when every record of the
\* weekly frame has it, every record _compare_and_merge returns has it,
\* whether updated, zeroed, untouched or injected
C25_TotalIdentity ==
    /\ pc = "reported" =>
           \A k \in 1..Len(df_output.rows) : TotalIdentity(df_output.rows[k])
    /\ (/\ pc = "merged"
        /\ \A k \in 1..Len(weekly_df.rows) : TotalIdentity(weekly_df.rows[k])) =>
           \A k \in 1..Len(result_df.rows) : TotalIdentity(result_df.rows[k])

\* a merge that updated a record with a pending order, zeroed another and
\* injected an inventory product
C25_Witness ==
    /\ pc = "merged"
    /\ \A k \in 1..Len(weekly_df.rows) : TotalIdentity(weekly_df.rows[k])
    /\ \E k \in 1..Len(weekly_df.rows) :
        /\ weekly_df.rows[k].Codigo \in InventoryCodes(inventory_df)
        /\ weekly_df.rows[k].Pedido # NaN
        /\ result_df.rows[k].Estoque # weekly_df.rows[k].Estoque
    /\ \E k \in 1..Len(weekly_df.rows) :
        /\ weekly_df.rows[k].Codigo \notin InventoryCodes(inventory_df)
        /\ weekly_df.rows[k].Estoque # Num(0)
        /\ result_df.rows[k].Estoque = Num(0)
    /\ Len(result_df.rows) > Len(weekly_df.rows)

\* a final report with a source record that has an order and one without
C25_WitnessReport ==
    /\ pc = "reported"
    /\ \E k \in 1..Len(df_output.rows) :
        /\ df_output.rows[k].Pedido # NaN
        /\ df_output.rows[k].Estoque # Num(0)
    /\ \E k \in 1..Len(df_output.rows) : df_output.rows[k].Pedido = NaN

----------------------------------------------------------------------------
(* Product codes of the output of compare *)

\* C26: when no product code repeats in the weekly frame, the frame that
\* compare returns holds at most one record per product code, also when
\* the inventory or the ranking report lists a code on several rows
C26_UniqueProductCode ==
    (pc = "done" /\ UniqueCodes(weekly_df.rows)) => UniqueCodes(df_output.rows)

\* the part of the output that comes from the ranking merge: a code the
\* merge appended is appended once, however many entries carry it
RankingAppendsOnce ==
    pc = "done" =>
        \A j, k \in (Len(result_df.rows) + 1)..Len(df_output.rows) :
            df_output.rows[j].Codigo = df_output.rows[k].Codigo => j = k

\* two ranking entries of one new code ended in one record
RankingRepeatedCode ==
    /\ pc = "done"
    /\ Len(df_output.rows) = Len(result_df.rows) + 1
    /\ \E j, k \in 1..Len(mazza_report.rows) :
        /\ j # k
        /\ mazza_report.rows[j].CODIGO = mazza_report.rows[k].CODIGO
        /\ mazza_report.rows[j].CODIGO \notin FrameCodes(result_df.rows)

----------------------------------------------------------------------------
(* Inventory rows that repeat a product code *)

\* the rows of the inventory that carry a code, in inventory order
RowsOfCode(inv, code) == SelectSeq(inv, LAMBDA r : r.CodProduto = code)

\* C27: when several inventory rows carry the code of a weekly record, the
\* Estoque of the record, and the group code, group label and description
\* that fill a record without Grupo, are those of the last such row
C27_LastInventoryRowWins ==
    pc = "merged" =>
        \A k \in 1..Len(weekly_df.rows) :
            LET orig == weekly_df.rows[k]
                same == RowsOfCode(inventory_df, orig.Codigo)
                last == same[Len(same)]
                row == result_df.rows[k]
            IN  Len(same) > 0 =>
                    /\ row.Estoque = last.Quantidade
                    /\ (IsNaS(orig.Grupo) \/ orig.Grupo = <<>>) =>
                          /\ row.Descricao = last.DescProduto
                          /\ (last.CodGrupo # <<>> \/ last.DescGrupo # <<>>) =>
                                row.Grupo = GroupLabel(last.CodGrupo, last.DescGrupo)

\* two inventory rows of one code that differ in quantity, group and
\* description, and a weekly record of that code without Grupo
C27_Witness ==
    /\ pc = "merged"
    /\ \E k \in 1..Len(weekly_df.rows) :
        LET same == RowsOfCode(inventory_df, weekly_df.rows[k].Codigo)
        IN  /\ Len(same) = 2
            /\ same[1].Quantidade # same[2].Quantidade
            /\ same[1].DescProduto # same[2].DescProduto
            /\ same[1].CodGrupo # same[2].CodGrupo
            /\ same[1].DescGrupo # same[2].DescGrupo
            /\ weekly_df.rows[k].Grupo = <<>>
            /\ result_df.rows[k].Estoque = same[2].Quantidade
            /\ result_df.rows[k].Grupo = GroupLabel(same[2].CodGrupo, same[2].DescGrupo)
            /\ result_df.rows[k].Descricao = same[2].DescProduto

----------------------------------------------------------------------------
(* Which quantity line an occurrence of a product code uses *)

\* line k of the document starts an occurrence for the running parser
StartsOccurrence(k) ==
    IF pc = "nf"
    THEN code_match(StrippedLine(lines, k)) /\ k + 1 < Len(lines)
    ELSE /\ item_match(StrippedLine(lines, k))
         /\ k + 1 < Len(lines)
         /\ code_match(StrippedLine(lines, k + 1))
         /\ k + 2 < Len(lines)

\* the lines of the lookahead window of an occurrence that starts at k
WindowOf(k) ==
    IF pc = "nf"
    THEN (k + 2)..(NfWindowEnd(k, Len(lines)) - 1)
    ELSE (k + 3)..(PedidoWindowEnd(k, Len(lines)) - 1)

IsQuantityLine(j) ==
    IF pc = "nf"
    THEN qty_match(StrippedLine(lines, j)) # NoMatch
    ELSE qty_match_pedido(StrippedLine(lines, j)) # NoMatch

\* the quantity lines of the window of the occurrence at k
QuantityLinesOf(k) == {j \in WindowOf(k) : IsQuantityLine(j)}

\* the line whose quantity the occurrence at k uses
UsedQuantityLine(k) ==
    CHOOSE j \in QuantityLinesOf(k) : \A m \in QuantityLinesOf(k) : j <= m

\* C28: a quantity line is the quantity of at most one occurrence of a
\* product code: the occurrence the parser is at when it changes the
\* quantity map has no other occurrence starting between its description
\* and the quantity line it uses
C28_QuantityLineUsedOnce ==
    [][(/\ pc \in {"nf", "pedido"}
        /\ line_no < Len(lines)
        /\ quantities' # quantities) =>
          \A m \in WindowOf(line_no) :
              m < UsedQuantityLine(line_no) => ~StartsOccurrence(m)
      ]_vars

\* the parser returned a quantity for a code whose only occurrence is
\* followed by another occurrence before any quantity line
TookFollowingQuantity ==
    /\ pc \in {"nf_returned", "pedido_returned"}
    /\ DOMAIN quantities # {}
    /\ Len(lines) >= 2
    /\ \E c \in DOMAIN quantities : \E d \in DOMAIN quantities : c # d
    /\ Cardinality({j \in 0..(Len(lines) - 1) :
                       StrippedLine(lines, j) \in {TQty2, TQty0}}) = 1

----------------------------------------------------------------------------
(* A quantity line of 0 *)

\* the integer of quantity line j
QuantityOn(j) == PyInt(qty_match(RStrip(StrippedLine(lines, j), Whitespace)).group)

\* the occurrence at k has a quantity line of 0 first in its window
ZeroComesFirst(k) ==
    /\ StartsOccurrence(k)
    /\ QuantityLinesOf(k) # {}
    /\ QuantityOn(UsedQuantityLine(k)) = 0

\* C29: the window search stops at the first quantity line; when its
\* integer is 0 the occurrence adds nothing to the quantity map and
\* nothing to the description map, whatever the later lines of the window
C29_ZeroQuantityStops ==
    [][(/\ pc \in {"nf", "pedido"}
        /\ line_no < Len(lines)
        /\ ZeroComesFirst(line_no)) =>
          /\ quantities' = quantities
          /\ descriptions' = descriptions
      ]_vars

\* the parser has passed an occurrence whose window holds a quantity line
\* of 0 and then a positive one, and its code has no entry
C29_Witness ==
    /\ pc \in {"nf", "pedido"}
    /\ line_no > 0
    /\ ZeroComesFirst(line_no - 1)
    /\ \E j \in QuantityLinesOf(line_no - 1) : QuantityOn(j) > 0
    /\ LET code == StrippedLine(lines, IF pc = "nf" THEN line_no - 1 ELSE line_no)
       IN  /\ code \notin DOMAIN quantities
           /\ code \notin DOMAIN descriptions

----------------------------------------------------------------------------
(* Order of the records after the ranking merge *)

\* the place of the first ranking entry that carries a code
FirstInFeed(codigo) ==
    MinOf({j \in 1..Len(mazza_report.rows) : mazza_report.rows[j].CODIGO = codigo})

\* C30: the sort is not applied again after the ranking merge: in the
\* output of compare the records that existed before the merge stand first
\* in their order of tier and description, and the records made from
\* unmatched ranking entries follow all of them in the order of the feed
C30_RankingRecordsLast ==
    pc = "done" =>
        LET rows == df_output.rows
            n == Len(result_df.rows)
        IN  /\ Len(rows) >= n
            /\ {rows[k].Codigo : k \in 1..n} = FrameCodes(result_df.rows)
            /\ \A j, k \in 1..n : j < k => ~SortsBefore(rows[k], rows[j])
            /\ \A k \in (n + 1)..Len(rows) :
                /\ rows[k].Codigo \notin FrameCodes(result_df.rows)
                /\ rows[k].Codigo
                       \in {mazza_report.rows[j].CODIGO : j \in 1..Len(mazza_report.rows)}
            /\ \A j, k \in (n + 1)..Len(rows) :
                j < k => FirstInFeed(rows[j].Codigo) < FirstInFeed(rows[k].Codigo)

\* two records made from ranking entries stand in feed order after a
\* record of tier 2, which itself follows a record of tier 0
C30_Witness ==
    /\ pc = "done"
    /\ LET rows == df_output.rows
           n == Len(result_df.rows)
       IN  /\ n >= 2
           /\ Len(rows) = n + 2
           /\ grupo_priority(rows[n].Grupo) = 2
           /\ grupo_priority(rows[n + 1].Grupo) = 1
           /\ grupo_priority(rows[1].Grupo) = 0
           /\ rows[n + 1].Codigo = "9999999"
           /\ rows[n + 2].Codigo = "1234567"

====
